---- MODULE Spec2Model ----
(***************************************************************************)
(* Model of the checkmate daemon: the Orchestrator build/review cycle      *)
(* (daemon/src/orchestrator.ts), the WorkspaceTools patch guard            *)
(* (daemon/src/tools.ts, the text that follows the README in               *)
(* src/README.md) and the DaemonServer connection handling                 *)
(* (daemon/src/server.ts, src/unnamed/part_002).                           *)
(*                                                                         *)
(* A string is a sequence of one-character strings, a patch is the         *)
(* sequence of its lines (patch.split('\n')), so that the diff parser and  *)
(* the glob matcher are computed the way the code computes them.           *)
(***************************************************************************)
EXTENDS Integers, Sequences, FiniteSets, TLC

(***************************************************************************)
(* Bounds of the model.                                                    *)
(***************************************************************************)
MaxIterations == 2
MaxDiagRounds == 1
\* the longest path, the longest patch (in lines) and the longest list of
\* paths handed to WorkspaceTools
MaxPathLen == 5
MaxPatchLines == 3
MaxReadPaths == 2
\* run_cycle messages of one connection
MaxCycles == 2
\* the longest run list of a builder response
MaxRunCommands == 2
\* the largest max_iterations the decision to review is checked with
MaxGateIterations == 4

(***************************************************************************)
(* Strings.                                                                *)
(***************************************************************************)
StartsWith(s, prefix) ==
    /\ Len(s) >= Len(prefix)
    /\ SubSeq(s, 1, Len(prefix)) = prefix

EndsWith(s, suffix) ==
    /\ Len(s) >= Len(suffix)
    /\ SubSeq(s, Len(s) - Len(suffix) + 1, Len(s)) = suffix

Includes(s, c) == \E i \in 1..Len(s) : s[i] = c

Range(s) == { s[i] : i \in 1..Len(s) }

\* value.replace(/\\/g, '/')
normalizePath(value) ==
    [i \in 1..Len(value) |-> IF value[i] = "\\" THEN "/" ELSE value[i]]

(***************************************************************************)
(* globToRegExp: the pattern is scanned left to right into the pieces of   *)
(* the regular expression it builds.  A piece is <<"lit", c>> (a literal   *)
(* character, escaped or not), <<"dirs">> for (?:.*/)?, <<"any">> for .*,  *)
(* <<"seg">> for [^/]* and <<"one">> for [^/].                             *)
(***************************************************************************)
RECURSIVE SkipStars(_, _)
\* while (pattern[i + 1] === '*') i += 1
SkipStars(pattern, i) ==
    IF i + 1 <= Len(pattern) /\ pattern[i + 1] = "*"
    THEN SkipStars(pattern, i + 1)
    ELSE i

RECURSIVE GlobPieces(_, _)
GlobPieces(pattern, i) ==
    IF i > Len(pattern) THEN << >>
    ELSE IF pattern[i] = "*"
         THEN IF i + 1 <= Len(pattern) /\ pattern[i + 1] = "*"
              THEN LET j == SkipStars(pattern, i)
                   IN  IF j + 1 <= Len(pattern) /\ pattern[j + 1] = "/"
                       THEN << <<"dirs">> >> \o GlobPieces(pattern, j + 2)
                       ELSE << <<"any">> >> \o GlobPieces(pattern, j + 1)
              ELSE << <<"seg">> >> \o GlobPieces(pattern, i + 1)
         ELSE IF pattern[i] = "?"
              THEN << <<"one">> >> \o GlobPieces(pattern, i + 1)
              ELSE << <<"lit", pattern[i]>> >> \o GlobPieces(pattern, i + 1)

globToRegExp(pattern) == GlobPieces(pattern, 1)

RECURSIVE RegExpMatch(_, _, _, _)
\* Does pieces[i..] match s[j..] up to the end of s ('^' ... '$')?
RegExpMatch(pieces, i, s, j) ==
    IF i > Len(pieces) THEN j > Len(s)
    ELSE LET p == pieces[i] IN
         CASE p[1] = "lit" ->
                /\ j <= Len(s)
                /\ s[j] = p[2]
                /\ RegExpMatch(pieces, i + 1, s, j + 1)
           [] p[1] = "one" ->
                /\ j <= Len(s)
                /\ s[j] # "/"
                /\ RegExpMatch(pieces, i + 1, s, j + 1)
           [] p[1] = "seg" ->
                \E k \in j..(Len(s) + 1) :
                    /\ \A m \in j..(k - 1) : s[m] # "/"
                    /\ RegExpMatch(pieces, i + 1, s, k)
           [] p[1] = "any" ->
                \E k \in j..(Len(s) + 1) : RegExpMatch(pieces, i + 1, s, k)
           [] p[1] = "dirs" ->
                \/ RegExpMatch(pieces, i + 1, s, j)
                \/ \E k \in j..Len(s) :
                       /\ s[k] = "/"
                       /\ RegExpMatch(pieces, i + 1, s, k + 1)

RegExpTest(pieces, s) == RegExpMatch(pieces, 1, s, 1)

(***************************************************************************)
(* WorkspaceTools.isPathAllowed                                            *)
(***************************************************************************)
AllowedBy(allowed, filePath) ==
    LET normalized == normalizePath(filePath)
        allowedNormalized == normalizePath(allowed)
        withSlash == IF EndsWith(allowedNormalized, <<"/">>)
                     THEN allowedNormalized
                     ELSE allowedNormalized \o <<"/">>
    IN  IF Includes(allowedNormalized, "*")
        THEN RegExpTest(globToRegExp(allowedNormalized), normalized)
        ELSE \/ normalized = allowedNormalized
             \/ StartsWith(normalized, withSlash)

isPathAllowed(allowPaths, filePath) ==
    \E a \in 1..Len(allowPaths) : AllowedBy(allowPaths[a], filePath)

(***************************************************************************)
(* WorkspaceTools.validatePatch                                            *)
(***************************************************************************)
\* line.startsWith('--- ') || line.startsWith('+++ ')
IsHeaderLine(line) ==
    \/ StartsWith(line, <<"-", "-", "-", " ">>)
    \/ StartsWith(line, <<"+", "+", "+", " ">>)

\* Mutant of HeaderMatches: only the old-file header (a/) names a path.
HeaderMatchesOldFile(line) ==
    /\ Len(line) >= 7
    /\ \A i \in 1..3 : line[i] \in {"+", "-"}
    /\ line[4] = " "
    /\ line[5] = "a"
    /\ line[6] = "/"

\* line.match(/^[+-]{3} [ab]\/(.+)$/)
HeaderMatches(line) ==
    /\ Len(line) >= 7
    /\ \A i \in 1..3 : line[i] \in {"+", "-"}
    /\ line[4] = " "
    /\ line[5] \in {"a", "b"}
    /\ line[6] = "/"

HeaderGroup(line) == SubSeq(line, 7, Len(line))

DevNull == <<"/", "d", "e", "v", "/", "n", "u", "l", "l">>

RECURSIVE FilePathsFrom(_, _)
\* the filePaths array, in order of appearance
FilePathsFrom(patch, i) ==
    IF i > Len(patch) THEN << >>
    ELSE LET line == patch[i]
             rest == FilePathsFrom(patch, i + 1)
         IN  IF IsHeaderLine(line) /\ HeaderMatches(line) /\ HeaderGroup(line) # DevNull
             THEN <<HeaderGroup(line)>> \o rest
             ELSE rest

RECURSIVE FirstDisallowed(_, _, _)
\* the first path of filePaths the allow-list rejects; << >> when there is none
\* (the group (.+) of the header pattern is never empty)
FirstDisallowed(allowPaths, filePaths, i) ==
    IF i > Len(filePaths) THEN << >>
    ELSE IF ~isPathAllowed(allowPaths, filePaths[i]) THEN filePaths[i]
         ELSE FirstDisallowed(allowPaths, filePaths, i + 1)

\* Mutant of validatePatch: only the first extracted path is checked.
validatePatchFirstOnly(allowPaths, patch) ==
    LET filePaths == FilePathsFrom(patch, 1)
        bad == IF filePaths # << >> /\ ~isPathAllowed(allowPaths, filePaths[1])
               THEN filePaths[1]
               ELSE << >>
    IN  [valid |-> bad = << >>, error |-> bad]

\* {valid, error}: error is the path named by "Patch touches disallowed path: <p>"
validatePatch(allowPaths, patch) ==
    LET bad == FirstDisallowed(allowPaths, FilePathsFrom(patch, 1), 1)
    IN  [valid |-> bad = << >>, error |-> bad]

(***************************************************************************)
(* Orchestrator.patchSimilarity and Orchestrator.detectOscillation         *)
(***************************************************************************)
\* intersection.size / union.size as the pair <<numerator, denominator>>
patchSimilarity(patch1, patch2) ==
    IF patch1 = patch2 THEN <<1, 1>>
    ELSE LET lines1 == Range(patch1)
             lines2 == Range(patch2)
         IN  <<Cardinality(lines1 \cap lines2), Cardinality(lines1 \cup lines2)>>

\* similarity > 0.95
MoreThan95Percent(similarity) == similarity[1] * 100 > similarity[2] * 95

\* Mutant of detectOscillation: the exact-match test is missing.
detectOscillationSimilarOnly(history, currentPatch) ==
    /\ Len(history) >= 2
    /\ MoreThan95Percent(patchSimilarity(history[Len(history)], currentPatch))

detectOscillation(history, currentPatch) ==
    \/ \E i \in 1..Len(history) : history[i] = currentPatch
    \/ /\ Len(history) >= 2
       /\ MoreThan95Percent(patchSimilarity(history[Len(history)], currentPatch))

(***************************************************************************)
(* Orchestrator.findStuckIssues                                            *)
(***************************************************************************)
NoIssueId == "undefined"

\* !issue.issue_id : the field is absent or the empty string
IssueIdFalsy(issue) == issue.issue_id \in {NoIssueId, ""}

\* Mutant of findStuckIssues: a critical issue of the previous review does not count.
findStuckIssuesMajorOnly(history) ==
    IF Len(history) < 2 THEN << >>
    ELSE LET lastReview == history[Len(history)]
             prevReview == history[Len(history) - 1]
             Stuck(issue) ==
                 /\ ~IssueIdFalsy(issue)
                 /\ \E k \in 1..Len(prevReview.issues) :
                        /\ prevReview.issues[k].issue_id = issue.issue_id
                        /\ prevReview.issues[k].severity = "major"
         IN  SelectSeq(lastReview.issues, Stuck)

findStuckIssues(history) ==
    IF Len(history) < 2 THEN << >>
    ELSE LET lastReview == history[Len(history)]
             prevReview == history[Len(history) - 1]
             Stuck(issue) ==
                 /\ ~IssueIdFalsy(issue)
                 /\ \E k \in 1..Len(prevReview.issues) :
                        /\ prevReview.issues[k].issue_id = issue.issue_id
                        /\ prevReview.issues[k].severity \in {"critical", "major"}
         IN  SelectSeq(lastReview.issues, Stuck)

(***************************************************************************)
(* Orchestrator.shouldRunReviewer                                          *)
(***************************************************************************)
\* Mutant of shouldRunReviewer: final_only is treated as always.
shouldRunReviewerAlways(cfg, iter, testsPass) ==
    CASE cfg.review_mode = "selective" ->
            IF iter = 1 /\ testsPass /\ ~cfg.review_on_test_pass THEN FALSE
            ELSE IF ~testsPass THEN TRUE
            ELSE IF iter >= cfg.max_iterations THEN TRUE
            ELSE iter % 2 = 0
      [] OTHER -> TRUE

\* Mutant of shouldRunReviewer: selective reviews every pass after the first.
shouldRunReviewerNoParity(cfg, iter, testsPass) ==
    CASE cfg.review_mode = "always" -> TRUE
      [] cfg.review_mode = "final_only" -> iter >= cfg.max_iterations
      [] cfg.review_mode = "selective" ->
            IF iter = 1 /\ testsPass /\ ~cfg.review_on_test_pass THEN FALSE
            ELSE TRUE
      [] OTHER -> TRUE

shouldRunReviewer(cfg, iter, testsPass) ==
    CASE cfg.review_mode = "always" -> TRUE
      [] cfg.review_mode = "final_only" -> iter >= cfg.max_iterations
      [] cfg.review_mode = "selective" ->
            IF iter = 1 /\ testsPass /\ ~cfg.review_on_test_pass THEN FALSE
            ELSE IF ~testsPass THEN TRUE
            ELSE IF iter >= cfg.max_iterations THEN TRUE
            ELSE iter % 2 = 0
      [] OTHER -> TRUE

(***************************************************************************)
(* Inputs: the configuration, the patches the builder may emit, and the    *)
(* responses of the three agents.                                          *)
(***************************************************************************)
\* allow_paths = ["s/**/*"]
AllowPaths == << <<"s", "/", "*", "*", "/", "*">> >>

MinusHeader(path) == <<"-", "-", "-", " ", "a", "/">> \o path
PlusHeader(path) == <<"+", "+", "+", " ", "b", "/">> \o path

\* --- a/s/a, +++ b/s/a, +x
PatchA == << MinusHeader(<<"s", "/", "a">>), PlusHeader(<<"s", "/", "a">>), <<"+", "x">> >>
\* the lines of PatchA with the added line twice: another text, the same set of lines
PatchB == << MinusHeader(<<"s", "/", "a">>), PlusHeader(<<"s", "/", "a">>), <<"+", "x">>, <<"+", "x">> >>
\* --- a/s/a, +++ b/k/a : the second file is outside the allow-list
PatchC == << MinusHeader(<<"s", "/", "a">>), PlusHeader(<<"k", "/", "a">>), <<"+", "x">> >>
\* --- /dev/null, +++ b/s/b, +1 ... +20 : a new file under the allow-list
PatchD ==
    << <<"-", "-", "-", " ">> \o DevNull, PlusHeader(<<"s", "/", "b">>) >>
        \o [i \in 1..20 |-> <<"+", ToString(i)>>]
\* PatchD and one more line, --- a/k/a : 22 of its 23 lines are those of PatchD,
\* and the path of the new line is outside the allow-list
PatchE == Append(PatchD, MinusHeader(<<"k", "/", "a">>))

Patches == {PatchA, PatchB, PatchC, PatchD, PatchE}

\* builderMessage.patch absent (or the empty string): !builderMessage.patch
NoPatch == << >>

\* the configurations of the model: the moderator is enabled only together
\* with review_mode "always", so that every pass it may follow has a review
Configs ==
    { c \in [max_iterations : 1..MaxIterations,
             review_mode : {"always", "selective", "final_only"},
             review_on_test_pass : BOOLEAN,
             enable_moderator : BOOLEAN,
             moderator_configured : BOOLEAN] :
        /\ c.review_mode # "selective" => c.review_on_test_pass
        /\ c.moderator_configured => c.enable_moderator
        /\ c.enable_moderator => c.review_mode = "always" }

\* this.moderatorProvider is set by the constructor
moderatorProvider(cfg) == cfg.enable_moderator /\ cfg.moderator_configured

\* What parseJSON makes of a builder response: ok is FALSE when JSON.parse or
\* the schema rejects it; files_needed is the length of the list (0: absent or
\* empty); run is the length of the run list (the responses of the model carry
\* a run list of one command with PatchD and a longer one with PatchA).
BuilderResponses ==
    { r \in [ok : {TRUE}, files_needed : {0}, patch : Patches \cup {NoPatch},
              run : 0..MaxRunCommands] :
          /\ r.run = 1 => r.patch = PatchD
          /\ r.run >= 2 => r.patch = PatchA }
    \cup [ok : {TRUE}, files_needed : {1}, patch : {NoPatch, PatchA}, run : {0}]
    \cup [ok : {FALSE}, files_needed : {0}, patch : {NoPatch}, run : {0}]

Issue(sev, id) == [severity |-> sev, issue_id |-> id]

IssueLists ==
    { << >>,
      << Issue("critical", "x") >>,
      << Issue("minor", "x"), Issue("minor", "y") >>,
      << Issue("critical", "") >> }

NoReason == "undefined"

Review(v, is, br, hasDiag, diag) ==
    [verdict |-> v, issues |-> is, block_reason |-> br,
     has_diagnostics |-> hasDiag, diagnostics_needed |-> diag,
     suggested_patch |-> FALSE, stopping |-> "stopping"]

\* the review runCycle makes up when the reviewer is not run
SkippedReview ==
    [Review("approve", << >>, NoReason, FALSE, << >>)
        EXCEPT !.stopping = "Tests passed and review was skipped per configuration"]

\* The reviews ReviewSchema accepts (block_reason and diagnostics_needed are
\* optional whatever the verdict is).
Reviews ==
    { Review("approve", << >>, NoReason, FALSE, << >>) }
    \cup { Review("request_changes", is, NoReason, FALSE, << >>) : is \in IssueLists }
    \cup { Review("block", << Issue("critical", "x") >>, br, FALSE, << >>) :
              br \in {NoReason, "definite_bug", "needs_human", "uncertainty"} }
    \cup { [Review("block", << Issue("critical", "x") >>, "definite_bug", FALSE, << >>)
               EXCEPT !.suggested_patch = TRUE] }
    \cup { Review("block", << Issue("critical", "x") >>, "uncertainty", TRUE, d) :
              d \in {<< >>, << "cmd" >>} }

ReviewerResponses ==
    [ok : {TRUE}, review : Reviews]
    \cup [ok : {FALSE}, review : {Review("approve", << >>, NoReason, FALSE, << >>)}]

\* a moderator response: a decision the schema accepts, a response parseJSON
\* rejects, or a provider call that throws
ModeratorResponses ==
    {"accept_builder", "accept_reviewer", "reject_both", "invalid", "throws"}

ExitCodes == {0, 1}

(***************************************************************************)
(* State.                                                                  *)
(***************************************************************************)
VARIABLES
    config,           \* this.config
    pc,               \* where runCycle is suspended
    iteration,        \* let iteration
    lastPatch,        \* let lastPatch
    lastTestOutput,   \* let lastTestOutput
    builderMessage,   \* const builderMessage of the current pass
    review,           \* let review of the current pass
    stuckIssue,       \* const stuckIssue (arbiter mode)
    arbiterMessage,   \* const builderMessage of runArbiterMode
    patchHistory,     \* this.patchHistory
    reviewHistory,    \* this.reviewHistory
    \* what the cycle has emitted and done so far (observers of the cycle):
    terminals,        \* the error and cycle_complete events emitted, in order
    fileRequestAt,    \* the i announced for the pass that ended in a file request, 0 if the last pass did not
    filesNeededSeen,  \* files_needed responses observed
    diagnosticRounds, \* uncertainty-diagnostic rounds observed
    patchReady,       \* the patches announced by patch_ready
    repeatedPatch,    \* a patch_ready repeated an earlier patch_ready
    arbiterSinceReview, \* arbiter_mode events since the last review_ready
    reviewerCalls,    \* the iteration counter at each reviewer invocation
    moderatorCalls,   \* moderator provider invocations
    openIssues,       \* let openIssues of runCycle
    gitApply,         \* the last git apply: the patch, whether it applied, who called
    arbiterEvent,     \* the last arbiter_mode or arbiter_result event of the pass
    commandsRun,      \* the commands run in the current pass, in order: where each
                      \* came from, its place in its list, its exit code
    moderatorDecision, \* what the last moderator consultation returned
    \* DaemonServer, a record of
    \*   readyState:   ws.readyState of each client's socket
    \*   orchestrator: this.orchestrator, named by the socket its callback sends to
    \*   cycleOf:      per Orchestrator, the client whose request its histories hold
    \*   lastEvent:    the last event sent on each socket, and whose message caused it
    server,
    \* WorkspaceTools, a record of
    \*   allowPaths:   this.allowPaths
    \*   fileKind:     the workspace: what each path is on disk
    \*   call, result: the last call of a method, and what it returned or threw
    \*   tempFile:     whether .dualagent-temp.patch exists in the workspace root
    tools,
    \* one connection and its Orchestrator: the runCycle calls of the
    \* connection's run_cycle messages
    activations,
    \* the feedback of the next builder turn, a record of
    \*   len, threshold: the length of the joined feedback, and
    \*                   config.context_summary_threshold
    \*   pc, provider:   what was done with it, and how the summary call ended
    \*   result:         what summarizeContext returned, or what the loop head
    \*                   put in the builder's prompt
    context

cycleVars == <<config, pc, iteration, lastPatch, lastTestOutput, builderMessage,
               review, stuckIssue, arbiterMessage, patchHistory, reviewHistory,
               terminals, fileRequestAt, filesNeededSeen,
               diagnosticRounds, patchReady, repeatedPatch, arbiterSinceReview,
               reviewerCalls, moderatorCalls, openIssues, gitApply,
               arbiterEvent,
               commandsRun, moderatorDecision>>

serverVars == <<server>>

toolVars == <<tools>>

sessionVars == <<activations>>

contextVars == <<context>>

vars == <<cycleVars, serverVars, toolVars, sessionVars, contextVars>>

NoOutput == [defined |-> FALSE, exitCode |-> 0]
TestOutput(code) == [defined |-> TRUE, exitCode |-> code]
NoBuilderMessage == [ok |-> FALSE, files_needed |-> 0, patch |-> NoPatch, run |-> 0]
NoReview == Review("approve", << >>, NoReason, FALSE, << >>)
NoIssue == Issue("minor", NoIssueId)

\* a command handed to this.tools.runCommand and the exit code it returned
Command(from, index, code) == [from |-> from, index |-> index, exitCode |-> code]

\* runProcess('git', ['apply', ...]) ran on patch for caller by; ok: it exited 0
GitApply(patch, ok, by) == [patch |-> patch, ok |-> ok, by |-> by]
NoGitApply == GitApply(NoPatch, FALSE, "none")

\* the last patch handed to git apply
lastGitApply == gitApply.patch

\* Mutant of arbiterOutcome: the two outcomes are swapped.
arbiterOutcomeSwapped(exitCode) ==
    IF exitCode = 0 THEN "bug_confirmed" ELSE "bug_refuted"

\* const outcome = testResult.exitCode === 0 ? 'bug_refuted' : 'bug_confirmed'
arbiterOutcome(exitCode) ==
    IF exitCode = 0 THEN "bug_refuted" ELSE "bug_confirmed"

NoArbiterEvent == [type |-> "none", outcome |-> "none", test_passed |-> FALSE]
\* { type: 'arbiter_mode', issue }
ArbiterMode == [type |-> "arbiter_mode", outcome |-> "none", test_passed |-> FALSE]
\* { type: 'arbiter_result', result: { test_passed, outcome, ... } }
ArbiterResult(exitCode) ==
    [type |-> "arbiter_result", outcome |-> arbiterOutcome(exitCode),
     test_passed |-> exitCode = 0]

\* arbiter_mode was emitted and no arbiter_result since
arbiterOpen == arbiterEvent.type = "arbiter_mode"

\* review.issues.map(issue => `[${issue.severity.toUpperCase()}] ${issue.description}...`)
IssueLines(issues) ==
    [k \in 1..Len(issues) |->
        <<"[", CASE issues[k].severity = "critical" -> "CRITICAL"
                 [] issues[k].severity = "major" -> "MAJOR"
                 [] issues[k].severity = "minor" -> "MINOR"
                 [] OTHER -> issues[k].severity,
          "] ", <<"description of ", issues[k].issue_id>>>>]

\* Mutant of reviewOpenIssues: the review's issues are pushed onto the array.
reviewOpenIssuesPushed(issues, rev) ==
    issues \o IssueLines(rev.issues)
        \o (IF rev.suggested_patch THEN << <<"SUGGESTED_FIX:", "suggested_patch">> >>
            ELSE << >>)

\* openIssues = review.issues.map(...), then the push of SUGGESTED_FIX if
\* (review.suggested_patch): issues is the array before
reviewOpenIssues(issues, rev) ==
    IssueLines(rev.issues)
        \o (IF rev.suggested_patch THEN << <<"SUGGESTED_FIX:", "suggested_patch">> >>
            ELSE << >>)

\* Mutant of refutedOpenIssues: the refuted issue is kept.
refutedOpenIssuesKept(rev, stuck) == IssueLines(rev.issues)

\* openIssues of the bug_refuted branch: review.issues.filter(issue =>
\* issue.issue_id !== stuckIssue.issue_id).map(...)
refutedOpenIssues(rev, stuck) ==
    IssueLines(SelectSeq(rev.issues, LAMBDA issue : issue.issue_id # stuck.issue_id))

\* the three entries of the tests-failed branch
TestsFailingIssues(output) ==
    << <<"[CRITICAL] Tests failing - Exit code ", output.exitCode>>,
       <<"Stdout: ", "stdout">>,
       <<"Stderr: ", "stderr">> >>
\* Mutant of testsFailedOpenIssues: the three entries are pushed.
testsFailedOpenIssuesPushed(issues, output) == issues \o TestsFailingIssues(output)

\* openIssues = [...] of the tests-failed branch: issues is the array before
testsFailedOpenIssues(issues, output) == TestsFailingIssues(output)

\* `Files provided: ${builderMessage.files_needed.join(', ')}`
FilesProvided == <<"Files provided: ", "files_needed">>
\* `DIAGNOSTICS RUN:\n${diagnosticsOutput}`: one result per command
DiagnosticsRun(commands) ==
    <<"DIAGNOSTICS RUN:", [k \in 1..Len(commands) |-> <<"=== ", commands[k], " ===">>]>>
\* the two entries of the bug_confirmed branch
ArbiterConfirmedIssues(stuck) ==
    << <<"[CRITICAL] Arbiter-confirmed bug: ", <<"description of ", stuck.issue_id>>>>,
       <<"How to verify: ", "how_to_verify">> >>

\* where the last command run in the current pass came from
lastCommand ==
    IF commandsRun = << >> THEN "none" ELSE commandsRun[Len(commandsRun)].from

\* {type: 'error', error}: the text is a message and the path it ends with
ErrorEvent(message, path) ==
    [type |-> "error", success |-> FALSE, iterations |-> 0, error |-> <<message, path>>,
     message |-> << >>]
CycleComplete(ok, iter, message) ==
    [type |-> "cycle_complete", success |-> ok, iterations |-> iter,
     error |-> <<"", << >>>>, message |-> message]

\* the messages of cycle_complete: the text of the template, followed by the
\* value the template interpolates after it (review.stopping or the
\* moderator's reasoning) when it has one
MaxIterationsFailingTests == <<"Max iterations reached with failing tests.">>
ImplementationApproved(rev) == <<"Implementation approved! ", rev.stopping>>
ArbiterModeFailed == <<"Arbiter mode failed - cannot resolve stuck issue">>

\* the two errors of parseJSON
ParseFailed == "Failed to parse JSON / Schema validation failed"
\* the error of validatePatch
DisallowedPath == "Patch touches disallowed path: "
\* applyResult.error
ApplyFailed == "applyResult.error"

\* ConfigSchema defaults (max_iterations within the bound)
DefaultConfig ==
    [max_iterations |-> MaxIterations, review_mode |-> "always",
     review_on_test_pass |-> TRUE, enable_moderator |-> FALSE,
     moderator_configured |-> FALSE]

\* the clients of the daemon
Clients == {"A", "B"}

\* private orchestrator: Orchestrator | null = null
Null == "null"

NoEvent == [type |-> "none", origin |-> Null]
Event(type, origin) == [type |-> type, origin |-> origin]

\* new Orchestrator(...) and the fields runCycle resets, before any client is served
CycleIdle ==
    /\ pc = "idle"
    /\ iteration = 0
    /\ lastPatch = NoPatch
    /\ lastTestOutput = NoOutput
    /\ builderMessage = NoBuilderMessage
    /\ review = NoReview
    /\ stuckIssue = NoIssue
    /\ arbiterMessage = NoBuilderMessage
    /\ patchHistory = << >>
    /\ reviewHistory = << >>
    /\ terminals = << >>
    /\ fileRequestAt = 0
    /\ filesNeededSeen = 0
    /\ diagnosticRounds = 0
    /\ patchReady = {}
    /\ repeatedPatch = FALSE
    /\ arbiterSinceReview = 0
    /\ reviewerCalls = << >>
    /\ moderatorCalls = 0
    /\ openIssues = << >>
    /\ gitApply = NoGitApply
    /\ arbiterEvent = NoArbiterEvent
    /\ commandsRun = << >>
    /\ moderatorDecision = "none"

\* new DaemonServer(...): no client has connected
ServerIdle ==
    server = [readyState |-> [c \in Clients |-> "CONNECTING"],
              orchestrator |-> Null,
              cycleOf |-> [c \in Clients |-> Null],
              lastEvent |-> [c \in Clients |-> NoEvent]]

\* the paths the workspace of the model may hold
ReadPaths == { <<"s", "/", "s">>, <<".">> }

NoCall == [op |-> "none", arg |-> << >>]
NoResult == [threw |-> FALSE, value |-> << >>]

\* new WorkspaceTools(workspaceRoot, allowPaths), before any call
ToolsIdle ==
    tools = [allowPaths |-> AllowPaths,
             fileKind |-> [p \in ReadPaths |-> "none"],
             call |-> NoCall,
             result |-> NoResult,
             tempFile |-> FALSE]

\* a runCycle call: where it is suspended, its iteration counter and the
\* patches it has pushed to this.patchHistory
NoActivation == [pc |-> "none", iteration |-> 0, pushed |-> << >>]

\* no run_cycle message has arrived
SessionIdle == activations = [k \in 1..MaxCycles |-> NoActivation]

\* the feedback as it came, or the provider's summary: what a builder prompt
\* holds of the feedback, and its length (that of a summary is not modelled)
Feedback(len) == [text |-> "feedback", len |-> len]
Summary == [text |-> "summary", len |-> 0]

\* no feedback has been looked at
ContextIdle ==
    context = [len |-> 0, threshold |-> 1, pc |-> "idle", provider |-> "none",
               result |-> Feedback(0)]

Init ==
    /\ config \in Configs
    /\ CycleIdle
    /\ ServerIdle
    /\ ToolsIdle
    /\ SessionIdle
    /\ ContextIdle

(***************************************************************************)
(* WorkspaceTools.applyPatch: validate, write the temporary file, run      *)
(* git apply.  outcome is what the file system and git do: "write_error"   *)
(* (writeFileSync throws), "git_ok" (exit 0), "git_fail" (non-zero exit or *)
(* spawn error).  git is TRUE when git apply was invoked on the patch.     *)
(***************************************************************************)
ApplyOutcomes == {"write_error", "git_ok", "git_fail"}

\* this.tools.validatePatch(patch) for each patch of the model
PatchChecks == [p \in Patches |-> validatePatch(AllowPaths, p)]

toolsApplyPatch(patch, outcome) ==
    IF ~PatchChecks[patch].valid
    THEN [success |-> FALSE, git |-> FALSE]
    ELSE IF outcome = "write_error"
         THEN [success |-> FALSE, git |-> FALSE]
         ELSE [success |-> outcome = "git_ok", git |-> TRUE]

(***************************************************************************)
(* Orchestrator.runCycle.  A step runs from one await to the next.  The    *)
(* block-scoped constants of a pass (builderMessage, review, stuckIssue)   *)
(* take their initial value again when the pass ends, and the locals of    *)
(* runCycle when it returns.                                               *)
(***************************************************************************)
\* review.issues.some(i => i.severity === 'critical' || i.severity === 'major')
hasCriticalIssues(rev) ==
    \E k \in 1..Len(rev.issues) : rev.issues[k].severity \in {"critical", "major"}

\* Mutant of LoopGuard: the loop runs once more.
LoopGuardInclusive(iter, cfg) == iter <= cfg.max_iterations

\* while (iteration < this.config.max_iterations)
LoopGuard(iter, cfg) == iter < cfg.max_iterations

RECURSIVE runList(_, _, _)
\* for (const cmd of builderMessage.run) from the k-th command on: exits[k] is
\* the exit code the k-th command returns when it is run
runList(run, exits, k) ==
    IF k > run THEN << >>
    ELSE IF exits[k] # 0
         THEN <<Command("builder_run", k, exits[k])>>
         ELSE <<Command("builder_run", k, exits[k])>> \o runList(run, exits, k + 1)

\* Mutant of runCommands: the loop does not stop at a failing command.
runCommandsNoBreak(run, exits) ==
    IF run > 0
    THEN [k \in 1..run |-> Command("builder_run", k, exits[k])]
    ELSE <<Command("test_command", 1, exits[1])>>

\* Step 3 of a pass: the commands of the builder's run list (run is its
\* length), or the configured test_command when the list is absent or empty
runCommands(run, exits) ==
    IF run > 0
    THEN runList(run, exits, 1)
    ELSE <<Command("test_command", 1, exits[1])>>

\* Mutant of AfterDiagnostics: the counter is left as it is.
AfterDiagnosticsKeep(iter) == iter

\* iteration-- of the uncertainty branch
AfterDiagnostics(iter) == iter - 1

\* Mutant of moderatorAccepts: accept_reviewer settles the cycle as well.
moderatorAcceptsAnyAccept(decision) == decision \in {"accept_builder", "accept_reviewer"}

\* decision?.decision === 'accept_builder' (null when callModerator failed)
moderatorAccepts(decision) == decision = "accept_builder"

\* the message of the cycle_complete that follows a moderator consultation:
\* at is where the moderator was called from
moderatorMessage(at, accepted, rev) ==
    IF at = "moderator_osc"
    THEN IF accepted THEN <<"Moderator resolved: ", "reasoning">>
         ELSE <<"Oscillation detected - agents cannot converge. Human intervention needed.">>
    ELSE IF accepted THEN <<"Moderator resolved at max iterations: ", "reasoning">>
         ELSE <<"Reached max iterations. ", rev.stopping>>

\* the iteration counter with which the builder is re-prompted after files_needed
\* (continue: the counter is left as it is, and the loop head increments it)
AfterFileRequest(iter) == iter

\* "Check max iterations" at the end of the request_changes branch
MaxIterationCheck(rev) ==
    IF iteration >= config.max_iterations
    THEN IF config.enable_moderator /\ moderatorProvider(config) /\ hasCriticalIssues(rev)
         THEN /\ pc' = "moderator_max"
              /\ moderatorCalls' = moderatorCalls + 1
              /\ terminals' = terminals
         ELSE /\ pc' = "done"
              /\ terminals' = Append(terminals, CycleComplete(FALSE, iteration, <<"Reached max iterations. ", rev.stopping>>))
              /\ moderatorCalls' = moderatorCalls
    ELSE /\ pc' = "loop"
         /\ terminals' = terminals
         /\ moderatorCalls' = moderatorCalls

StartCycle ==
    \* run_cycle: the histories are reset and the loop is entered
    /\ pc \in {"idle", "done"}
    /\ pc' = "loop"
    /\ iteration' = 0
    /\ lastPatch' = NoPatch
    /\ lastTestOutput' = NoOutput
    /\ builderMessage' = NoBuilderMessage
    /\ review' = NoReview
    /\ stuckIssue' = NoIssue
    /\ arbiterMessage' = NoBuilderMessage
    /\ patchHistory' = << >>
    /\ reviewHistory' = << >>
    /\ terminals' = << >>
    /\ fileRequestAt' = 0
    /\ filesNeededSeen' = 0
    /\ diagnosticRounds' = 0
    /\ patchReady' = {}
    /\ repeatedPatch' = FALSE
    /\ arbiterSinceReview' = 0
    /\ reviewerCalls' = << >>
    /\ moderatorCalls' = 0
    /\ openIssues' = << >>
    /\ gitApply' = NoGitApply
    /\ arbiterEvent' = NoArbiterEvent
    /\ commandsRun' = << >>
    /\ moderatorDecision' = "none"
    /\ UNCHANGED <<config>>
    /\ UNCHANGED <<serverVars, toolVars, sessionVars, contextVars>>

LoopEnter ==
    \* the guard holds: iteration++, status "Iteration i/max", the builder is called
    /\ pc = "loop"
    /\ LoopGuard(iteration, config)
    /\ iteration' = iteration + 1
    /\ commandsRun' = << >>
    /\ arbiterEvent' = NoArbiterEvent
    /\ pc' = "builder"
    /\ UNCHANGED <<config, lastPatch, lastTestOutput, builderMessage, review,
                   stuckIssue, arbiterMessage, patchHistory, reviewHistory,
                   terminals, fileRequestAt, filesNeededSeen,
                   diagnosticRounds, patchReady, repeatedPatch,
                   arbiterSinceReview, reviewerCalls, moderatorCalls,
                   openIssues, gitApply, moderatorDecision>>
    /\ UNCHANGED <<serverVars, toolVars, sessionVars, contextVars>>

LoopExit ==
    \* the guard fails: runCycle returns
    /\ pc = "loop"
    /\ ~LoopGuard(iteration, config)
    /\ pc' = "done"
    /\ builderMessage' = IF pc' \in {"loop", "done"} THEN NoBuilderMessage ELSE builderMessage
    /\ review' = IF pc' \in {"loop", "done"} THEN NoReview ELSE review
    /\ stuckIssue' = IF pc' \in {"loop", "done"} THEN NoIssue ELSE stuckIssue
    /\ iteration' = IF pc' = "done" THEN 0 ELSE iteration
    /\ lastPatch' = IF pc' = "done" THEN NoPatch ELSE lastPatch
    /\ lastTestOutput' = IF pc' = "done" THEN NoOutput ELSE lastTestOutput
    /\ openIssues' = IF pc' = "done" THEN << >> ELSE openIssues
    /\ UNCHANGED <<config, arbiterMessage, patchHistory, reviewHistory,
                   terminals, fileRequestAt, filesNeededSeen,
                   diagnosticRounds, patchReady, repeatedPatch,
                   arbiterSinceReview, reviewerCalls, moderatorCalls,
                   gitApply, arbiterEvent, commandsRun, moderatorDecision>>
    /\ UNCHANGED <<serverVars, toolVars, sessionVars, contextVars>>

BuilderInvalid ==
    \* parseJSON emits its error and returns null; runCycle emits a second error
    /\ pc = "builder"
    /\ \E resp \in BuilderResponses :
        /\ ~resp.ok
        /\ terminals' = terminals \o <<ErrorEvent(ParseFailed, << >>),
                                       ErrorEvent("Builder produced invalid response", << >>)>>
    /\ fileRequestAt' = 0
    /\ pc' = "done"
    /\ builderMessage' = IF pc' \in {"loop", "done"} THEN NoBuilderMessage ELSE builderMessage
    /\ review' = IF pc' \in {"loop", "done"} THEN NoReview ELSE review
    /\ stuckIssue' = IF pc' \in {"loop", "done"} THEN NoIssue ELSE stuckIssue
    /\ iteration' = IF pc' = "done" THEN 0 ELSE iteration
    /\ lastPatch' = IF pc' = "done" THEN NoPatch ELSE lastPatch
    /\ lastTestOutput' = IF pc' = "done" THEN NoOutput ELSE lastTestOutput
    /\ openIssues' = IF pc' = "done" THEN << >> ELSE openIssues
    /\ UNCHANGED <<config, arbiterMessage, patchHistory, reviewHistory,
                   filesNeededSeen, diagnosticRounds, patchReady,
                   repeatedPatch, arbiterSinceReview, reviewerCalls,
                   moderatorCalls, gitApply, arbiterEvent, commandsRun,
                   moderatorDecision>>
    /\ UNCHANGED <<serverVars, toolVars, sessionVars, contextVars>>

BuilderFilesNeeded ==
    \* files_needed is non-empty: the files are read and the loop continues
    /\ pc = "builder"
    /\ \E resp \in BuilderResponses :
        /\ resp.ok
        /\ resp.files_needed > 0
    /\ filesNeededSeen' = filesNeededSeen + 1
    /\ fileRequestAt' = iteration
    /\ iteration' = AfterFileRequest(iteration)
    /\ openIssues' = Append(openIssues, FilesProvided)
    /\ pc' = "loop"
    /\ builderMessage' = IF pc' \in {"loop", "done"} THEN NoBuilderMessage ELSE builderMessage
    /\ review' = IF pc' \in {"loop", "done"} THEN NoReview ELSE review
    /\ stuckIssue' = IF pc' \in {"loop", "done"} THEN NoIssue ELSE stuckIssue
    /\ lastPatch' = IF pc' = "done" THEN NoPatch ELSE lastPatch
    /\ lastTestOutput' = IF pc' = "done" THEN NoOutput ELSE lastTestOutput
    /\ UNCHANGED <<config, arbiterMessage, patchHistory, reviewHistory,
                   terminals, diagnosticRounds, patchReady, repeatedPatch,
                   arbiterSinceReview, reviewerCalls, moderatorCalls,
                   gitApply, arbiterEvent, commandsRun, moderatorDecision>>
    /\ UNCHANGED <<serverVars, toolVars, sessionVars, contextVars>>

BuilderNoPatch ==
    \* neither files_needed nor a patch: error "Builder did not provide a patch"
    /\ pc = "builder"
    /\ \E resp \in BuilderResponses :
        /\ resp.ok
        /\ resp.files_needed = 0
        /\ resp.patch = NoPatch
    /\ terminals' = Append(terminals, ErrorEvent("Builder did not provide a patch", << >>))
    /\ fileRequestAt' = 0
    /\ pc' = "done"
    /\ builderMessage' = IF pc' \in {"loop", "done"} THEN NoBuilderMessage ELSE builderMessage
    /\ review' = IF pc' \in {"loop", "done"} THEN NoReview ELSE review
    /\ stuckIssue' = IF pc' \in {"loop", "done"} THEN NoIssue ELSE stuckIssue
    /\ iteration' = IF pc' = "done" THEN 0 ELSE iteration
    /\ lastPatch' = IF pc' = "done" THEN NoPatch ELSE lastPatch
    /\ lastTestOutput' = IF pc' = "done" THEN NoOutput ELSE lastTestOutput
    /\ openIssues' = IF pc' = "done" THEN << >> ELSE openIssues
    /\ UNCHANGED <<config, arbiterMessage, patchHistory, reviewHistory,
                   filesNeededSeen, diagnosticRounds, patchReady,
                   repeatedPatch, arbiterSinceReview, reviewerCalls,
                   moderatorCalls, gitApply, arbiterEvent, commandsRun,
                   moderatorDecision>>
    /\ UNCHANGED <<serverVars, toolVars, sessionVars, contextVars>>

BuilderOscillation ==
    \* patch_ready, then detectOscillation holds: the moderator is consulted
    \* when enabled and a review exists, else the cycle fails
    /\ pc = "builder"
    /\ IF config.enable_moderator /\ Len(reviewHistory) > 0
       THEN IF moderatorProvider(config)
            THEN /\ pc' = "moderator_osc"
                 /\ moderatorCalls' = moderatorCalls + 1
                 /\ moderatorDecision' = moderatorDecision
                 /\ terminals' = terminals
            ELSE \* callModerator emits "Moderator not configured" and returns null
                 /\ pc' = "done"
                 /\ moderatorCalls' = moderatorCalls
                 /\ moderatorDecision' = "no_provider"
                 /\ terminals' = terminals
                        \o <<ErrorEvent("Moderator not configured but was requested", << >>),
                             CycleComplete(FALSE, iteration, <<"Oscillation detected - agents cannot converge. Human intervention needed.">>)>>
       ELSE /\ pc' = "done"
            /\ moderatorCalls' = moderatorCalls
            /\ moderatorDecision' = moderatorDecision
            /\ terminals' = Append(terminals, CycleComplete(FALSE, iteration, <<"Oscillation detected - agents cannot converge. Human intervention needed.">>))
    /\ \E resp \in BuilderResponses :
        /\ resp.ok
        /\ resp.files_needed = 0
        /\ resp.patch # NoPatch
        /\ detectOscillation(patchHistory, resp.patch)
        /\ builderMessage' = IF pc' = "done" THEN NoBuilderMessage ELSE resp
        /\ lastPatch' = IF pc' = "done" THEN NoPatch ELSE resp.patch
        /\ patchReady' = patchReady \cup {resp.patch}
        /\ repeatedPatch' = (repeatedPatch \/ resp.patch \in patchReady)
    /\ fileRequestAt' = 0
    /\ review' = IF pc' \in {"loop", "done"} THEN NoReview ELSE review
    /\ stuckIssue' = IF pc' \in {"loop", "done"} THEN NoIssue ELSE stuckIssue
    /\ iteration' = IF pc' = "done" THEN 0 ELSE iteration
    /\ lastTestOutput' = IF pc' = "done" THEN NoOutput ELSE lastTestOutput
    /\ openIssues' = IF pc' = "done" THEN << >> ELSE openIssues
    /\ UNCHANGED <<config, arbiterMessage, patchHistory, reviewHistory,
                   filesNeededSeen, diagnosticRounds, arbiterSinceReview,
                   reviewerCalls, gitApply, arbiterEvent, commandsRun>>
    /\ UNCHANGED <<serverVars, toolVars, sessionVars, contextVars>>

BuilderPatch ==
    \* patch_ready, no oscillation: the patch joins the history and is validated
    /\ pc = "builder"
    /\ \E resp \in BuilderResponses :
        /\ resp.ok
        /\ resp.files_needed = 0
        /\ resp.patch # NoPatch
        /\ ~detectOscillation(patchHistory, resp.patch)
        /\ patchReady' = patchReady \cup {resp.patch}
        /\ repeatedPatch' = (repeatedPatch \/ resp.patch \in patchReady)
        /\ patchHistory' = Append(patchHistory, resp.patch)
        /\ IF PatchChecks[resp.patch].valid
           THEN /\ pc' = "apply"
                /\ terminals' = terminals
                /\ builderMessage' = resp
                /\ lastPatch' = resp.patch
           ELSE /\ pc' = "done"
                /\ terminals' = Append(terminals,
                       ErrorEvent(DisallowedPath, PatchChecks[resp.patch].error))
                /\ builderMessage' = NoBuilderMessage
                /\ lastPatch' = NoPatch
    /\ fileRequestAt' = 0
    /\ review' = IF pc' \in {"loop", "done"} THEN NoReview ELSE review
    /\ stuckIssue' = IF pc' \in {"loop", "done"} THEN NoIssue ELSE stuckIssue
    /\ iteration' = IF pc' = "done" THEN 0 ELSE iteration
    /\ lastTestOutput' = IF pc' = "done" THEN NoOutput ELSE lastTestOutput
    /\ openIssues' = IF pc' = "done" THEN << >> ELSE openIssues
    /\ UNCHANGED <<config, arbiterMessage, reviewHistory, filesNeededSeen,
                   diagnosticRounds, arbiterSinceReview, reviewerCalls,
                   moderatorCalls, gitApply, arbiterEvent, commandsRun,
                   moderatorDecision>>
    /\ UNCHANGED <<serverVars, toolVars, sessionVars, contextVars>>

ApplyPatchResult ==
    \* await this.tools.applyPatch(lastPatch)
    /\ pc = "apply"
    /\ \E outcome \in ApplyOutcomes :
        LET result == toolsApplyPatch(lastPatch, outcome)
        IN  /\ gitApply' = IF result.git
                           THEN GitApply(lastPatch, result.success, "cycle")
                           ELSE gitApply
            /\ IF result.success
               THEN /\ pc' = "run"
                    /\ terminals' = terminals
               ELSE /\ pc' = "done"
                    /\ terminals' = Append(terminals, ErrorEvent(ApplyFailed, << >>))
    /\ builderMessage' = IF pc' \in {"loop", "done"} THEN NoBuilderMessage ELSE builderMessage
    /\ review' = IF pc' \in {"loop", "done"} THEN NoReview ELSE review
    /\ stuckIssue' = IF pc' \in {"loop", "done"} THEN NoIssue ELSE stuckIssue
    /\ iteration' = IF pc' = "done" THEN 0 ELSE iteration
    /\ lastPatch' = IF pc' = "done" THEN NoPatch ELSE lastPatch
    /\ lastTestOutput' = IF pc' = "done" THEN NoOutput ELSE lastTestOutput
    /\ openIssues' = IF pc' = "done" THEN << >> ELSE openIssues
    /\ UNCHANGED <<config, arbiterMessage, patchHistory, reviewHistory,
                   fileRequestAt, filesNeededSeen, diagnosticRounds,
                   patchReady, repeatedPatch, arbiterSinceReview,
                   reviewerCalls, moderatorCalls, arbiterEvent, commandsRun,
                   moderatorDecision>>
    /\ UNCHANGED <<serverVars, toolVars, sessionVars, contextVars>>

RunCommands ==
    \* the builder's run list, or the configured test_command; then the
    \* tests-failed branch or the decision to review
    /\ pc = "run"
    /\ \E exits \in [1..MaxRunCommands -> ExitCodes] :
        LET executed == runCommands(builderMessage.run, exits)
            code == executed[Len(executed)].exitCode
            testsPass == code = 0
        IN  /\ commandsRun' = executed
            /\ IF ~testsPass
               THEN /\ reviewerCalls' = reviewerCalls
                    /\ IF iteration >= config.max_iterations
                       THEN /\ pc' = "done"
                            /\ terminals' = Append(terminals, CycleComplete(FALSE, iteration, MaxIterationsFailingTests))
                       ELSE /\ pc' = "loop"
                            /\ terminals' = terminals
               ELSE IF shouldRunReviewer(config, iteration, testsPass)
                    THEN /\ pc' = "reviewer"
                         /\ reviewerCalls' = Append(reviewerCalls, iteration)
                         /\ terminals' = terminals
                    ELSE \* the review is skipped: a synthesized approve
                         /\ pc' = "done"
                         /\ reviewerCalls' = reviewerCalls
                         /\ terminals' = Append(terminals, CycleComplete(TRUE, iteration, ImplementationApproved(SkippedReview)))
            /\ lastTestOutput' = IF pc' = "done" THEN NoOutput ELSE TestOutput(code)
            /\ openIssues' = IF pc' = "done" THEN << >>
                           ELSE IF ~testsPass
                           THEN testsFailedOpenIssues(openIssues, TestOutput(code))
                           ELSE openIssues
    /\ builderMessage' = IF pc' \in {"loop", "done"} THEN NoBuilderMessage ELSE builderMessage
    /\ review' = IF pc' \in {"loop", "done"} THEN NoReview ELSE review
    /\ stuckIssue' = IF pc' \in {"loop", "done"} THEN NoIssue ELSE stuckIssue
    /\ iteration' = IF pc' = "done" THEN 0 ELSE iteration
    /\ lastPatch' = IF pc' = "done" THEN NoPatch ELSE lastPatch
    /\ UNCHANGED <<config, arbiterMessage, patchHistory, reviewHistory,
                   fileRequestAt, filesNeededSeen, diagnosticRounds,
                   patchReady, repeatedPatch, arbiterSinceReview,
                   moderatorCalls, gitApply, arbiterEvent, moderatorDecision>>
    /\ UNCHANGED <<serverVars, toolVars, sessionVars, contextVars>>

ReviewerInvalid ==
    \* parseJSON emits its error and returns null; runCycle emits a second error
    /\ pc = "reviewer"
    /\ \E resp \in ReviewerResponses :
        /\ ~resp.ok
        /\ terminals' = terminals \o <<ErrorEvent(ParseFailed, << >>),
                                       ErrorEvent("Reviewer produced invalid response", << >>)>>
    /\ pc' = "done"
    /\ builderMessage' = IF pc' \in {"loop", "done"} THEN NoBuilderMessage ELSE builderMessage
    /\ review' = IF pc' \in {"loop", "done"} THEN NoReview ELSE review
    /\ stuckIssue' = IF pc' \in {"loop", "done"} THEN NoIssue ELSE stuckIssue
    /\ iteration' = IF pc' = "done" THEN 0 ELSE iteration
    /\ lastPatch' = IF pc' = "done" THEN NoPatch ELSE lastPatch
    /\ lastTestOutput' = IF pc' = "done" THEN NoOutput ELSE lastTestOutput
    /\ openIssues' = IF pc' = "done" THEN << >> ELSE openIssues
    /\ UNCHANGED <<config, arbiterMessage, patchHistory, reviewHistory,
                   fileRequestAt, filesNeededSeen, diagnosticRounds,
                   patchReady, repeatedPatch, arbiterSinceReview,
                   reviewerCalls, moderatorCalls, gitApply, arbiterEvent,
                   commandsRun, moderatorDecision>>
    /\ UNCHANGED <<serverVars, toolVars, sessionVars, contextVars>>

ReviewApprove ==
    \* the review is recorded, review_ready, then cycle_complete{success: true}
    /\ pc = "reviewer"
    /\ \E resp \in ReviewerResponses :
        /\ resp.ok
        /\ resp.review.verdict = "approve"
        /\ reviewHistory' = Append(reviewHistory, resp.review)
        /\ terminals' = Append(terminals, CycleComplete(TRUE, iteration, ImplementationApproved(resp.review)))
    /\ arbiterSinceReview' = 0
    /\ pc' = "done"
    /\ builderMessage' = IF pc' \in {"loop", "done"} THEN NoBuilderMessage ELSE builderMessage
    /\ review' = IF pc' \in {"loop", "done"} THEN NoReview ELSE review
    /\ stuckIssue' = IF pc' \in {"loop", "done"} THEN NoIssue ELSE stuckIssue
    /\ iteration' = IF pc' = "done" THEN 0 ELSE iteration
    /\ lastPatch' = IF pc' = "done" THEN NoPatch ELSE lastPatch
    /\ lastTestOutput' = IF pc' = "done" THEN NoOutput ELSE lastTestOutput
    /\ openIssues' = IF pc' = "done" THEN << >> ELSE openIssues
    /\ UNCHANGED <<config, arbiterMessage, patchHistory, fileRequestAt,
                   filesNeededSeen, diagnosticRounds, patchReady,
                   repeatedPatch, reviewerCalls, moderatorCalls, gitApply,
                   arbiterEvent, commandsRun, moderatorDecision>>
    /\ UNCHANGED <<serverVars, toolVars, sessionVars, contextVars>>

ReviewUncertainty ==
    \* block, block_reason uncertainty and diagnostics_needed present (an empty
    \* list is truthy): runDiagnostics; with no command to await, the round
    \* ends at once
    /\ pc = "reviewer"
    /\ diagnosticRounds < MaxDiagRounds
    /\ \E resp \in ReviewerResponses :
        /\ resp.ok
        /\ resp.review.verdict = "block"
        /\ resp.review.block_reason = "uncertainty"
        /\ resp.review.has_diagnostics
        /\ reviewHistory' = Append(reviewHistory, resp.review)
        /\ IF Len(resp.review.diagnostics_needed) > 0
           THEN /\ pc' = "diagnostics"
                /\ iteration' = iteration
                /\ diagnosticRounds' = diagnosticRounds
                /\ review' = resp.review
                /\ openIssues' = openIssues
           ELSE /\ pc' = "loop"
                /\ iteration' = AfterDiagnostics(iteration)
                /\ diagnosticRounds' = diagnosticRounds + 1
                /\ review' = NoReview
                /\ openIssues' = Append(openIssues, DiagnosticsRun(resp.review.diagnostics_needed))
    /\ arbiterSinceReview' = 0
    /\ builderMessage' = IF pc' \in {"loop", "done"} THEN NoBuilderMessage ELSE builderMessage
    /\ stuckIssue' = IF pc' \in {"loop", "done"} THEN NoIssue ELSE stuckIssue
    /\ lastPatch' = IF pc' = "done" THEN NoPatch ELSE lastPatch
    /\ lastTestOutput' = IF pc' = "done" THEN NoOutput ELSE lastTestOutput
    /\ UNCHANGED <<config, arbiterMessage, patchHistory, terminals,
                   fileRequestAt, filesNeededSeen, patchReady, repeatedPatch,
                   reviewerCalls, moderatorCalls, gitApply, arbiterEvent,
                   commandsRun, moderatorDecision>>
    /\ UNCHANGED <<serverVars, toolVars, sessionVars, contextVars>>

DiagnosticsDone ==
    \* the diagnostic commands have run: iteration-- and continue
    /\ pc = "diagnostics"
    /\ iteration' = AfterDiagnostics(iteration)
    /\ diagnosticRounds' = diagnosticRounds + 1
    /\ \E code \in ExitCodes :
        /\ commandsRun' = Append(commandsRun, Command("diagnostics_needed", 1, code))
        /\ openIssues' = Append(openIssues, DiagnosticsRun(review.diagnostics_needed))
    /\ pc' = "loop"
    /\ builderMessage' = IF pc' \in {"loop", "done"} THEN NoBuilderMessage ELSE builderMessage
    /\ review' = IF pc' \in {"loop", "done"} THEN NoReview ELSE review
    /\ stuckIssue' = IF pc' \in {"loop", "done"} THEN NoIssue ELSE stuckIssue
    /\ lastPatch' = IF pc' = "done" THEN NoPatch ELSE lastPatch
    /\ lastTestOutput' = IF pc' = "done" THEN NoOutput ELSE lastTestOutput
    /\ UNCHANGED <<config, arbiterMessage, patchHistory, reviewHistory,
                   terminals, fileRequestAt, filesNeededSeen, patchReady,
                   repeatedPatch, arbiterSinceReview, reviewerCalls,
                   moderatorCalls, gitApply, arbiterEvent, moderatorDecision>>
    /\ UNCHANGED <<serverVars, toolVars, sessionVars, contextVars>>

ReviewDefiniteBug ==
    \* block, definite_bug: back to the builder unless the iterations are used up
    /\ pc = "reviewer"
    /\ \E resp \in ReviewerResponses :
        /\ resp.ok
        /\ resp.review.verdict = "block"
        /\ resp.review.block_reason = "definite_bug"
        /\ reviewHistory' = Append(reviewHistory, resp.review)
        /\ openIssues' = IF iteration >= config.max_iterations
                       THEN << >> ELSE reviewOpenIssues(openIssues, resp.review)
        /\ IF iteration >= config.max_iterations
           THEN /\ pc' = "done"
                /\ terminals' = Append(terminals,
                        CycleComplete(FALSE, iteration,
                                      <<"Max iterations reached. ", resp.review.stopping>>))
           ELSE /\ pc' = "loop"
                /\ terminals' = terminals
    /\ arbiterSinceReview' = 0
    /\ builderMessage' = IF pc' \in {"loop", "done"} THEN NoBuilderMessage ELSE builderMessage
    /\ review' = IF pc' \in {"loop", "done"} THEN NoReview ELSE review
    /\ stuckIssue' = IF pc' \in {"loop", "done"} THEN NoIssue ELSE stuckIssue
    /\ iteration' = IF pc' = "done" THEN 0 ELSE iteration
    /\ lastPatch' = IF pc' = "done" THEN NoPatch ELSE lastPatch
    /\ lastTestOutput' = IF pc' = "done" THEN NoOutput ELSE lastTestOutput
    /\ UNCHANGED <<config, arbiterMessage, patchHistory, fileRequestAt,
                   filesNeededSeen, diagnosticRounds, patchReady,
                   repeatedPatch, reviewerCalls, moderatorCalls, gitApply,
                   arbiterEvent, commandsRun, moderatorDecision>>
    /\ UNCHANGED <<serverVars, toolVars, sessionVars, contextVars>>

ReviewNeedsHuman ==
    \* block, needs_human: cycle_complete{success: false}
    /\ pc = "reviewer"
    /\ \E resp \in ReviewerResponses :
        /\ resp.ok
        /\ resp.review.verdict = "block"
        /\ resp.review.block_reason = "needs_human"
        /\ reviewHistory' = Append(reviewHistory, resp.review)
        /\ terminals' = Append(terminals,
                CycleComplete(FALSE, iteration,
                              <<"Reviewer blocked (needs human): ", resp.review.stopping>>))
    /\ arbiterSinceReview' = 0
    /\ pc' = "done"
    /\ builderMessage' = IF pc' \in {"loop", "done"} THEN NoBuilderMessage ELSE builderMessage
    /\ review' = IF pc' \in {"loop", "done"} THEN NoReview ELSE review
    /\ stuckIssue' = IF pc' \in {"loop", "done"} THEN NoIssue ELSE stuckIssue
    /\ iteration' = IF pc' = "done" THEN 0 ELSE iteration
    /\ lastPatch' = IF pc' = "done" THEN NoPatch ELSE lastPatch
    /\ lastTestOutput' = IF pc' = "done" THEN NoOutput ELSE lastTestOutput
    /\ openIssues' = IF pc' = "done" THEN << >> ELSE openIssues
    /\ UNCHANGED <<config, arbiterMessage, patchHistory, fileRequestAt,
                   filesNeededSeen, diagnosticRounds, patchReady,
                   repeatedPatch, reviewerCalls, moderatorCalls, gitApply,
                   arbiterEvent, commandsRun, moderatorDecision>>
    /\ UNCHANGED <<serverVars, toolVars, sessionVars, contextVars>>

ReviewBlockUnhandled ==
    \* block with no block_reason, or uncertainty without diagnostics_needed:
    \* no branch of the if-chain is taken and the loop body ends
    /\ pc = "reviewer"
    /\ \E resp \in ReviewerResponses :
        /\ resp.ok
        /\ resp.review.verdict = "block"
        /\ \/ resp.review.block_reason = NoReason
           \/ resp.review.block_reason = "uncertainty" /\ ~resp.review.has_diagnostics
        /\ reviewHistory' = Append(reviewHistory, resp.review)
    /\ arbiterSinceReview' = 0
    /\ pc' = "loop"
    /\ builderMessage' = IF pc' \in {"loop", "done"} THEN NoBuilderMessage ELSE builderMessage
    /\ review' = IF pc' \in {"loop", "done"} THEN NoReview ELSE review
    /\ stuckIssue' = IF pc' \in {"loop", "done"} THEN NoIssue ELSE stuckIssue
    /\ iteration' = IF pc' = "done" THEN 0 ELSE iteration
    /\ lastPatch' = IF pc' = "done" THEN NoPatch ELSE lastPatch
    /\ lastTestOutput' = IF pc' = "done" THEN NoOutput ELSE lastTestOutput
    /\ openIssues' = IF pc' = "done" THEN << >> ELSE openIssues
    /\ UNCHANGED <<config, arbiterMessage, patchHistory, terminals,
                   fileRequestAt, filesNeededSeen, diagnosticRounds,
                   patchReady, repeatedPatch, reviewerCalls, moderatorCalls,
                   gitApply, arbiterEvent, commandsRun, moderatorDecision>>
    /\ UNCHANGED <<serverVars, toolVars, sessionVars, contextVars>>

ReviewRequestChanges ==
    \* request_changes with no stuck issue: the max-iteration check
    /\ pc = "reviewer"
    /\ \E resp \in ReviewerResponses :
        /\ resp.ok
        /\ resp.review.verdict = "request_changes"
        /\ findStuckIssues(Append(reviewHistory, resp.review)) = << >>
        /\ reviewHistory' = Append(reviewHistory, resp.review)
        /\ MaxIterationCheck(resp.review)
        /\ review' = IF pc' = "moderator_max" THEN resp.review ELSE NoReview
        /\ openIssues' = IF pc' = "done" THEN << >> ELSE reviewOpenIssues(openIssues, resp.review)
    /\ arbiterSinceReview' = 0
    /\ builderMessage' = IF pc' \in {"loop", "done"} THEN NoBuilderMessage ELSE builderMessage
    /\ stuckIssue' = IF pc' \in {"loop", "done"} THEN NoIssue ELSE stuckIssue
    /\ iteration' = IF pc' = "done" THEN 0 ELSE iteration
    /\ lastPatch' = IF pc' = "done" THEN NoPatch ELSE lastPatch
    /\ lastTestOutput' = IF pc' = "done" THEN NoOutput ELSE lastTestOutput
    /\ UNCHANGED <<config, arbiterMessage, patchHistory, fileRequestAt,
                   filesNeededSeen, diagnosticRounds, patchReady,
                   repeatedPatch, reviewerCalls, gitApply, arbiterEvent,
                   commandsRun, moderatorDecision>>
    /\ UNCHANGED <<serverVars, toolVars, sessionVars, contextVars>>

ReviewRequestChangesStuck ==
    \* request_changes with a stuck issue: runArbiterMode on the first one
    \* (arbiter_mode is emitted and the builder is called)
    /\ pc = "reviewer"
    /\ \E resp \in ReviewerResponses :
        /\ resp.ok
        /\ resp.review.verdict = "request_changes"
        /\ findStuckIssues(Append(reviewHistory, resp.review)) # << >>
        /\ review' = resp.review
        /\ reviewHistory' = Append(reviewHistory, resp.review)
        /\ stuckIssue' = findStuckIssues(Append(reviewHistory, resp.review))[1]
    /\ arbiterSinceReview' = 1
    /\ arbiterEvent' = ArbiterMode
    /\ pc' = "arbiter_builder"
    /\ UNCHANGED <<config, iteration, lastPatch, lastTestOutput,
                   builderMessage, arbiterMessage, patchHistory, terminals,
                   fileRequestAt, filesNeededSeen, diagnosticRounds,
                   patchReady, repeatedPatch, reviewerCalls, moderatorCalls,
                   openIssues, gitApply, commandsRun, moderatorDecision>>
    /\ UNCHANGED <<serverVars, toolVars, sessionVars, contextVars>>

ArbiterBuilderFails ==
    \* runArbiterMode: the response does not parse (two errors), has no patch,
    \* or its patch fails validatePatch (one error); 'failed' ends the cycle
    /\ pc = "arbiter_builder"
    /\ \E resp \in BuilderResponses :
        /\ \/ ~resp.ok
           \/ resp.patch = NoPatch
           \/ resp.patch # NoPatch /\ ~PatchChecks[resp.patch].valid
        /\ terminals' = terminals
                \o (IF resp.ok THEN << >> ELSE <<ErrorEvent(ParseFailed, << >>)>>)
                \o <<IF ~resp.ok \/ resp.patch = NoPatch
                      THEN ErrorEvent("Builder failed to provide arbiter test", << >>)
                      ELSE ErrorEvent("Invalid arbiter test patch: ",
                                      PatchChecks[resp.patch].error),
                     CycleComplete(FALSE, iteration, ArbiterModeFailed)>>
    /\ pc' = "done"
    /\ builderMessage' = IF pc' \in {"loop", "done"} THEN NoBuilderMessage ELSE builderMessage
    /\ review' = IF pc' \in {"loop", "done"} THEN NoReview ELSE review
    /\ stuckIssue' = IF pc' \in {"loop", "done"} THEN NoIssue ELSE stuckIssue
    /\ iteration' = IF pc' = "done" THEN 0 ELSE iteration
    /\ lastPatch' = IF pc' = "done" THEN NoPatch ELSE lastPatch
    /\ lastTestOutput' = IF pc' = "done" THEN NoOutput ELSE lastTestOutput
    /\ openIssues' = IF pc' = "done" THEN << >> ELSE openIssues
    /\ UNCHANGED <<config, arbiterMessage, patchHistory, reviewHistory,
                   fileRequestAt, filesNeededSeen, diagnosticRounds,
                   patchReady, repeatedPatch, arbiterSinceReview,
                   reviewerCalls, moderatorCalls, gitApply, arbiterEvent,
                   commandsRun, moderatorDecision>>
    /\ UNCHANGED <<serverVars, toolVars, sessionVars, contextVars>>

ArbiterBuilderPatch ==
    \* runArbiterMode: the test patch passes validatePatch and is applied
    /\ pc = "arbiter_builder"
    /\ \E resp \in BuilderResponses :
        /\ resp.ok
        /\ resp.patch # NoPatch
        /\ PatchChecks[resp.patch].valid
        /\ arbiterMessage' = resp
    /\ pc' = "arbiter_apply"
    /\ UNCHANGED <<config, iteration, lastPatch, lastTestOutput,
                   builderMessage, review, stuckIssue, patchHistory,
                   reviewHistory, terminals, fileRequestAt, filesNeededSeen,
                   diagnosticRounds, patchReady, repeatedPatch,
                   arbiterSinceReview, reviewerCalls, moderatorCalls,
                   openIssues, gitApply, arbiterEvent, commandsRun,
                   moderatorDecision>>
    /\ UNCHANGED <<serverVars, toolVars, sessionVars, contextVars>>

ArbiterApplyResult ==
    \* await this.tools.applyPatch(builderMessage.patch) in runArbiterMode; with
    \* no run command the arbiter returns 'failed' without an arbiter_result
    /\ pc = "arbiter_apply"
    /\ \E outcome \in ApplyOutcomes :
        LET result == toolsApplyPatch(arbiterMessage.patch, outcome)
        IN  /\ gitApply' = IF result.git
                           THEN GitApply(arbiterMessage.patch, result.success, "arbiter")
                           ELSE gitApply
            /\ IF ~result.success
               THEN /\ pc' = "done"
                    /\ terminals' = terminals
                           \o <<ErrorEvent("Failed to apply arbiter test: ", << >>),
                                CycleComplete(FALSE, iteration, ArbiterModeFailed)>>
               ELSE IF arbiterMessage.run > 0
                    THEN /\ pc' = "arbiter_run"
                         /\ terminals' = terminals
                    ELSE /\ pc' = "done"
                         /\ terminals' = Append(terminals, CycleComplete(FALSE, iteration, ArbiterModeFailed))
    /\ arbiterMessage' = IF pc' = "arbiter_run" THEN arbiterMessage ELSE NoBuilderMessage
    /\ builderMessage' = IF pc' \in {"loop", "done"} THEN NoBuilderMessage ELSE builderMessage
    /\ review' = IF pc' \in {"loop", "done"} THEN NoReview ELSE review
    /\ stuckIssue' = IF pc' \in {"loop", "done"} THEN NoIssue ELSE stuckIssue
    /\ iteration' = IF pc' = "done" THEN 0 ELSE iteration
    /\ lastPatch' = IF pc' = "done" THEN NoPatch ELSE lastPatch
    /\ lastTestOutput' = IF pc' = "done" THEN NoOutput ELSE lastTestOutput
    /\ openIssues' = IF pc' = "done" THEN << >> ELSE openIssues
    /\ UNCHANGED <<config, patchHistory, reviewHistory, fileRequestAt,
                   filesNeededSeen, diagnosticRounds, patchReady,
                   repeatedPatch, arbiterSinceReview, reviewerCalls,
                   moderatorCalls, arbiterEvent, commandsRun,
                   moderatorDecision>>
    /\ UNCHANGED <<serverVars, toolVars, sessionVars, contextVars>>

ArbiterRunResult ==
    \* the arbiter test has run: bug_confirmed or bug_refuted, arbiter_result,
    \* then the max-iteration check of the request_changes branch
    /\ pc = "arbiter_run"
    /\ \E code \in ExitCodes :
        /\ commandsRun' = Append(commandsRun, Command("arbiter_run", 1, code))
        /\ arbiterEvent' = ArbiterResult(code)
        /\ MaxIterationCheck(review)
        /\ openIssues' =
              IF pc' = "done" THEN << >>
              ELSE IF arbiterOutcome(code) = "bug_confirmed"
                   THEN ArbiterConfirmedIssues(stuckIssue)
                   ELSE refutedOpenIssues(review, stuckIssue)
    /\ arbiterMessage' = NoBuilderMessage
    /\ builderMessage' = IF pc' \in {"loop", "done"} THEN NoBuilderMessage ELSE builderMessage
    /\ review' = IF pc' \in {"loop", "done"} THEN NoReview ELSE review
    /\ stuckIssue' = IF pc' \in {"loop", "done"} THEN NoIssue ELSE stuckIssue
    /\ iteration' = IF pc' = "done" THEN 0 ELSE iteration
    /\ lastPatch' = IF pc' = "done" THEN NoPatch ELSE lastPatch
    /\ lastTestOutput' = IF pc' = "done" THEN NoOutput ELSE lastTestOutput
    /\ UNCHANGED <<config, patchHistory, reviewHistory, fileRequestAt,
                   filesNeededSeen, diagnosticRounds, patchReady,
                   repeatedPatch, arbiterSinceReview, reviewerCalls,
                   gitApply, moderatorDecision>>
    /\ UNCHANGED <<serverVars, toolVars, sessionVars, contextVars>>

ModeratorResponds ==
    \* callModerator returns: accept_builder ends the cycle with success, a
    \* rejected response or a provider failure emits an error first
    /\ pc \in {"moderator_osc", "moderator_max"}
    /\ \E resp \in ModeratorResponses :
        /\ moderatorDecision' = resp
        /\ terminals' = terminals
            \o (CASE resp = "invalid" -> <<ErrorEvent(ParseFailed, << >>)>>
                  [] resp = "throws" -> <<ErrorEvent("Moderator failed: ", << >>)>>
                  [] OTHER -> << >>)
            \o <<CycleComplete(moderatorAccepts(resp), iteration,
                             moderatorMessage(pc, moderatorAccepts(resp), review))>>
    /\ pc' = "done"
    /\ builderMessage' = IF pc' \in {"loop", "done"} THEN NoBuilderMessage ELSE builderMessage
    /\ review' = IF pc' \in {"loop", "done"} THEN NoReview ELSE review
    /\ stuckIssue' = IF pc' \in {"loop", "done"} THEN NoIssue ELSE stuckIssue
    /\ iteration' = IF pc' = "done" THEN 0 ELSE iteration
    /\ lastPatch' = IF pc' = "done" THEN NoPatch ELSE lastPatch
    /\ lastTestOutput' = IF pc' = "done" THEN NoOutput ELSE lastTestOutput
    /\ openIssues' = IF pc' = "done" THEN << >> ELSE openIssues
    /\ UNCHANGED <<config, arbiterMessage, patchHistory, reviewHistory,
                   fileRequestAt, filesNeededSeen, diagnosticRounds,
                   patchReady, repeatedPatch, arbiterSinceReview,
                   reviewerCalls, moderatorCalls, gitApply, arbiterEvent,
                   commandsRun>>
    /\ UNCHANGED <<serverVars, toolVars, sessionVars, contextVars>>

ClientApplyPatch ==
    \* Orchestrator.applyPatch (the client's apply_patch message)
    /\ pc = "idle"
    /\ \E patch \in Patches, outcome \in ApplyOutcomes :
        /\ PatchChecks[patch].valid
        /\ LET result == toolsApplyPatch(patch, outcome)
           IN  gitApply' = IF result.git
                           THEN GitApply(patch, result.success, "client")
                           ELSE gitApply
    /\ UNCHANGED <<config, pc, iteration, lastPatch, lastTestOutput,
                   builderMessage, review, stuckIssue, arbiterMessage,
                   patchHistory, reviewHistory, terminals, fileRequestAt,
                   filesNeededSeen, diagnosticRounds, patchReady,
                   repeatedPatch, arbiterSinceReview, reviewerCalls,
                   moderatorCalls, openIssues, arbiterEvent, commandsRun,
                   moderatorDecision>>
    /\ UNCHANGED <<serverVars, toolVars, sessionVars, contextVars>>

ClientRunTests ==
    \* Orchestrator.runTests (the client's run_tests message)
    /\ pc = "idle"
    /\ \E code \in ExitCodes :
        commandsRun' = <<Command("test_command", 1, code)>>
    /\ UNCHANGED <<config, pc, iteration, lastPatch, lastTestOutput,
                   builderMessage, review, stuckIssue, arbiterMessage,
                   patchHistory, reviewHistory, terminals, fileRequestAt,
                   filesNeededSeen, diagnosticRounds, patchReady,
                   repeatedPatch, arbiterSinceReview, reviewerCalls,
                   moderatorCalls, openIssues, gitApply, arbiterEvent,
                   moderatorDecision>>
    /\ UNCHANGED <<serverVars, toolVars, sessionVars, contextVars>>

Next ==
    \/ StartCycle
    \/ LoopEnter
    \/ LoopExit
    \/ BuilderInvalid
    \/ BuilderFilesNeeded
    \/ BuilderNoPatch
    \/ BuilderOscillation
    \/ BuilderPatch
    \/ ApplyPatchResult
    \/ RunCommands
    \/ ReviewerInvalid
    \/ ReviewApprove
    \/ ReviewUncertainty
    \/ DiagnosticsDone
    \/ ReviewDefiniteBug
    \/ ReviewNeedsHuman
    \/ ReviewBlockUnhandled
    \/ ReviewRequestChanges
    \/ ReviewRequestChangesStuck
    \/ ArbiterBuilderFails
    \/ ArbiterBuilderPatch
    \/ ArbiterApplyResult
    \/ ArbiterRunResult
    \/ ModeratorResponds
    \/ ClientApplyPatch
    \/ ClientRunTests

Spec == Init /\ [][Next]_vars

(***************************************************************************)
(* DaemonServer: one server, the connections of its clients.               *)
(***************************************************************************)
\* sendEvent(ws, event): sent only if ws.readyState === WebSocket.OPEN
sendEvent(state, events, ws, event) ==
    IF state[ws] = "OPEN" THEN [events EXCEPT ![ws] = event] ELSE events

\* the last event each Orchestrator method emits through its callback
RunCycleEvents == {"cycle_complete", "error", "status"}
ApplyPatchEvents == {"status", "error"}
RunTestsEvents == {"tests_output"}

\* the switch of the message handler: the message of client c runs method on
\* this.orchestrator, whose events go to the socket of its callback
Dispatch(c, last, ranCycle) ==
    IF server.orchestrator = Null
    THEN server' = [server EXCEPT
            !.lastEvent = sendEvent(server.readyState, @, c, Event("error", c))]
    ELSE server' = [server EXCEPT
            !.lastEvent = sendEvent(server.readyState, @, server.orchestrator,
                                    Event(last, c)),
            !.cycleOf = IF ranCycle THEN [@ EXCEPT ![server.orchestrator] = c] ELSE @]

\* wss.on('connection')
ServerConnection ==
    \E c \in Clients :
        /\ server.readyState[c] # "OPEN"
        /\ LET opened == [server.readyState EXCEPT ![c] = "OPEN"]
           IN  server' = [server EXCEPT
                   !.readyState = opened,
                   !.lastEvent = sendEvent(opened, @, c, Event("status", c)),
                   !.orchestrator = c,
                   !.cycleOf = [@ EXCEPT ![c] = Null]]
        /\ UNCHANGED <<cycleVars, toolVars, sessionVars, contextVars>>

\* ws.on('message'): the message does not parse
ServerInvalidMessage ==
    \E c \in Clients :
        /\ server.readyState[c] = "OPEN"
        /\ server' = [server EXCEPT
              !.lastEvent = sendEvent(server.readyState, @, c, Event("error", c))]
        /\ UNCHANGED <<cycleVars, toolVars, sessionVars, contextVars>>

\* ws.on('message'): case 'run_cycle'
ServerRunCycle ==
    \E c \in Clients, last \in RunCycleEvents :
        /\ server.readyState[c] = "OPEN"
        /\ Dispatch(c, last, TRUE)
        /\ UNCHANGED <<cycleVars, toolVars, sessionVars, contextVars>>

\* ws.on('message'): case 'apply_patch'
ServerApplyPatch ==
    \E c \in Clients, last \in ApplyPatchEvents :
        /\ server.readyState[c] = "OPEN"
        /\ Dispatch(c, last, FALSE)
        /\ UNCHANGED <<cycleVars, toolVars, sessionVars, contextVars>>

\* ws.on('message'): case 'run_tests'
ServerRunTests ==
    \E c \in Clients, last \in RunTestsEvents :
        /\ server.readyState[c] = "OPEN"
        /\ Dispatch(c, last, FALSE)
        /\ UNCHANGED <<cycleVars, toolVars, sessionVars, contextVars>>

\* ws.on('close')
ServerClose ==
    \E c \in Clients :
        /\ server.readyState[c] = "OPEN"
        /\ server' = [server EXCEPT
              !.readyState = [@ EXCEPT ![c] = "CLOSED"],
              !.orchestrator = Null]
        /\ UNCHANGED <<cycleVars, toolVars, sessionVars, contextVars>>

InitServer ==
    /\ config = DefaultConfig
    /\ CycleIdle
    /\ ServerIdle
    /\ ToolsIdle
    /\ SessionIdle
    /\ ContextIdle

NextServer ==
    \/ ServerConnection
    \/ ServerInvalidMessage
    \/ ServerRunCycle
    \/ ServerApplyPatch
    \/ ServerRunTests
    \/ ServerClose

SpecServer == InitServer /\ [][NextServer]_vars

(***************************************************************************)
(* WorkspaceTools on its own: one call of a method on a workspace and an   *)
(* allow-list drawn from the sets below.  The methods keep no state from   *)
(* one call to the next.                                                   *)
(***************************************************************************)
PathChars == {"s", "/", "."}

RECURSIVE StringsUpTo(_, _)
\* the strings over chars of length 1..n
StringsUpTo(chars, n) ==
    IF n = 0 THEN {}
    ELSE LET shorter == StringsUpTo(chars, n - 1)
         IN  { <<c>> : c \in chars } \cup shorter
                 \cup { Append(s, c) : s \in shorter, c \in chars }

\* the paths handed to isPathAllowed
ToolPaths == StringsUpTo(PathChars, MaxPathLen)

\* the allow-lists a workspace is opened with
AllowLists ==
    { << >>,
      << <<"s", "/", "*", "*", "/", "*">> >>,
      << <<"s", "/", "*">> >>,
      << <<"s", "/", "?">> >>,
      << <<"?">> >>,
      << <<"s">> >>,
      << <<"s", "/">> >>,
      << <<"*", ".", "s">> >>,
      << <<"*", "*", "/", "s">> >>,
      << <<"s", "/", "*", "*">> >>,
      << <<"s", "?", "*">> >>,
      << <<"s", "/", "?">>, <<".">> >>,
      << <<"s", "/", "*">>, <<".">> >> }

\* the lines patches are made of (none holds a line terminator)
ToolLines ==
    { MinusHeader(<<"s", "/", "s">>),
      PlusHeader(<<".">>),
      PlusHeader(<<"s">>),
      <<"-", "-", "-", " ", "s", "/", "s">>,
      MinusHeader(DevNull),
      MinusHeader(<< >>),
      <<"+", "-", "+", " ", "a", "/", ".">> }

RECURSIVE PatchesUpTo(_)
\* the patches of at most n lines
PatchesUpTo(n) ==
    IF n = 0 THEN { << >> }
    ELSE LET shorter == PatchesUpTo(n - 1)
         IN  shorter \cup { Append(p, l) : p \in shorter, l \in ToolLines }

ToolPatches == PatchesUpTo(MaxPatchLines)

RECURSIVE PathListsUpTo(_)
PathListsUpTo(n) ==
    IF n = 0 THEN { << >> }
    ELSE LET shorter == PathListsUpTo(n - 1)
         IN  shorter \cup { Append(l, p) : l \in shorter, p \in ReadPaths }

\* the filePaths arrays handed to readFiles
ReadLists == PathListsUpTo(MaxReadPaths)

\* what a path is in the workspace
FileKinds == {"none", "file", "dir"}

Threw(message) == [threw |-> TRUE, value |-> message]
Returned(value) == [threw |-> FALSE, value |-> value]

\* fs.readFileSync(fullPath, 'utf-8') of a file
ContentOf(filePath) == <<"content of ", filePath>>

\* Mutant of readFile: the file is looked up before the allow-list is.
readFileExistsFirst(allowList, fileKind, filePath) ==
    IF fileKind[filePath] = "none"
    THEN Threw(<<"File not found: ", filePath>>)
    ELSE IF ~isPathAllowed(allowList, filePath)
         THEN Threw(<<"Path ", filePath, " is not in allowlist">>)
         ELSE IF fileKind[filePath] = "dir"
              THEN Threw(<<"EISDIR: illegal operation on a directory, read">>)
              ELSE Returned(ContentOf(filePath))

\* WorkspaceTools.readFile (readFileSync throws on a directory)
readFile(allowList, fileKind, filePath) ==
    IF ~isPathAllowed(allowList, filePath)
    THEN Threw(<<"Path ", filePath, " is not in allowlist">>)
    ELSE IF fileKind[filePath] = "none"
         THEN Threw(<<"File not found: ", filePath>>)
         ELSE IF fileKind[filePath] = "dir"
              THEN Threw(<<"EISDIR: illegal operation on a directory, read">>)
              ELSE Returned(ContentOf(filePath))

\* result[filePath] = value
SetEntry(result, filePath, value) ==
    [p \in DOMAIN result \cup {filePath} |-> IF p = filePath THEN value ELSE result[p]]

RECURSIVE readFilesFrom(_, _, _, _, _)
\* the loop of readFiles from the i-th path on
readFilesFrom(allowList, fileKind, filePaths, i, result) ==
    IF i > Len(filePaths) THEN result
    ELSE LET r == readFile(allowList, fileKind, filePaths[i])
             entry == IF r.threw THEN <<"ERROR: ">> \o r.value ELSE r.value
         IN  readFilesFrom(allowList, fileKind, filePaths, i + 1,
                           SetEntry(result, filePaths[i], entry))

\* WorkspaceTools.readFiles
readFiles(allowList, fileKind, filePaths) ==
    Returned(readFilesFrom(allowList, fileKind, filePaths, 1, << >>))

\* what fs.writeFileSync(tempPatchFile, patch) does: the file is written, or
\* the call throws before or after the file was created
WriteOutcomes == {"written", "throws", "throws_created"}

\* what the awaited runProcess('git', ['apply', ...]) does
GitOutcomes == {"exit_0", "exit_nonzero", "spawn_error"}

\* Mutant of unlinkTempPatchFile: the file is removed on the success path only.
unlinkTempPatchFileOnSuccess(exists, returned) ==
    IF returned.success THEN FALSE ELSE exists

\* the finally block of applyPatch: whether the temporary file exists after
\* if (fs.existsSync(tempPatchFile)) fs.unlinkSync(tempPatchFile)
unlinkTempPatchFile(exists, returned) ==
    IF exists THEN FALSE ELSE exists

ApplyPatchFailed(detail) ==
    [success |-> FALSE, error |-> <<"Failed to apply patch: ", detail>>]

ToolsIsPathAllowed ==
    /\ tools.call = NoCall
    /\ \E filePath \in ToolPaths :
        tools' = [tools EXCEPT
            !.call = [op |-> "isPathAllowed", arg |-> filePath],
            !.result = Returned(isPathAllowed(tools.allowPaths, filePath))]
    /\ UNCHANGED <<cycleVars, serverVars, sessionVars, contextVars>>

ToolsValidatePatch ==
    /\ tools.call = NoCall
    /\ \E patch \in ToolPatches :
        tools' = [tools EXCEPT
            !.call = [op |-> "validatePatch", arg |-> patch],
            !.result = Returned(validatePatch(tools.allowPaths, patch))]
    /\ UNCHANGED <<cycleVars, serverVars, sessionVars, contextVars>>

ToolsReadFile ==
    /\ tools.call = NoCall
    /\ \E filePath \in ReadPaths :
        tools' = [tools EXCEPT
            !.call = [op |-> "readFile", arg |-> filePath],
            !.result = readFile(tools.allowPaths, tools.fileKind, filePath)]
    /\ UNCHANGED <<cycleVars, serverVars, sessionVars, contextVars>>

ToolsReadFiles ==
    /\ tools.call = NoCall
    /\ \E filePaths \in ReadLists :
        tools' = [tools EXCEPT
            !.call = [op |-> "readFiles", arg |-> filePaths],
            !.result = readFiles(tools.allowPaths, tools.fileKind, filePaths)]
    /\ UNCHANGED <<cycleVars, serverVars, sessionVars, contextVars>>

\* WorkspaceTools.applyPatch up to its await: validatePatch, then
\* writeFileSync in the try block (a throw runs catch and finally)
ToolsApplyPatch ==
    /\ tools.call = NoCall
    /\ \E patch \in ToolPatches, write \in WriteOutcomes :
        LET validation == validatePatch(tools.allowPaths, patch)
        IN  IF ~validation.valid
            THEN tools' = [tools EXCEPT
                    !.call = [op |-> "applyPatch", arg |-> patch],
                    !.result = Returned([success |-> FALSE,
                                         error |-> validation.error])]
            ELSE IF write = "written"
                 THEN tools' = [tools EXCEPT
                         !.call = [op |-> "await git apply", arg |-> patch],
                         !.tempFile = TRUE]
                 ELSE tools' = [tools EXCEPT
                         !.call = [op |-> "applyPatch", arg |-> patch],
                         !.result = Returned(ApplyPatchFailed("write error")),
                         !.tempFile = unlinkTempPatchFile(write = "throws_created",
                                                          ApplyPatchFailed("write error"))]
    /\ UNCHANGED <<cycleVars, serverVars, sessionVars, contextVars>>

\* WorkspaceTools.applyPatch from the await on: git apply has exited or could
\* not be spawned; the return statement, then the finally block
ToolsApplyPatchGitDone ==
    /\ tools.call.op = "await git apply"
    /\ \E git \in GitOutcomes :
        LET returned == CASE git = "exit_0" -> [success |-> TRUE, error |-> << >>]
                          [] git = "exit_nonzero" -> ApplyPatchFailed("git apply output")
                          [] git = "spawn_error" -> ApplyPatchFailed("spawn error")
        IN  tools' = [tools EXCEPT
                !.call = [op |-> "applyPatch", arg |-> tools.call.arg],
                !.result = Returned(returned),
                !.tempFile = unlinkTempPatchFile(tools.tempFile, returned)]
    /\ UNCHANGED <<cycleVars, serverVars, sessionVars, contextVars>>

InitTools ==
    /\ config = DefaultConfig
    /\ CycleIdle
    /\ ServerIdle
    /\ SessionIdle
    /\ ContextIdle
    /\ \E allowList \in AllowLists, fileKind \in [ReadPaths -> FileKinds] :
        tools = [allowPaths |-> allowList, fileKind |-> fileKind,
                 call |-> NoCall, result |-> NoResult,
                 tempFile |-> FALSE]

NextTools ==
    \/ ToolsIsPathAllowed
    \/ ToolsValidatePatch
    \/ ToolsReadFile
    \/ ToolsReadFiles
    \/ ToolsApplyPatch
    \/ ToolsApplyPatchGitDone

SpecTools == InitTools /\ [][NextTools]_vars

(***************************************************************************)
(* One connection: every run_cycle message calls runCycle on the           *)
(* connection's Orchestrator.  The calls share this.patchHistory and       *)
(* this.reviewHistory; each has its own iteration counter.  The            *)
(* configuration is the default one (no moderator), the builder answers    *)
(* with a patch or with text that does not parse, the reviewer approves,   *)
(* requests changes without issues, or answers with text that does not     *)
(* parse.                                                                  *)
(***************************************************************************)
SessionPatches == {PatchA, PatchB, PatchC}

SessionBuilderResponses ==
    { r \in BuilderResponses : (~r.ok) \/ (r.patch \in SessionPatches /\ r.run = 0) }

SessionReviewerResponses ==
    { r \in ReviewerResponses :
        (~r.ok) \/ (r.review.verdict \in {"approve", "request_changes"}
                        /\ r.review.issues = << >>) }

\* the await points of runCycle
Suspended == {"builder", "apply", "run", "reviewer"}

\* the state of the cycle that a runCycle call of the connection leaves alone
sessionUnchanged ==
    <<config, pc, iteration, lastPatch, lastTestOutput, builderMessage, review,
      stuckIssue, arbiterMessage, terminals, fileRequestAt, filesNeededSeen,
      diagnosticRounds, patchReady, repeatedPatch, arbiterSinceReview,
      reviewerCalls, moderatorCalls, openIssues, gitApply, arbiterEvent,
      commandsRun,
      moderatorDecision, serverVars, toolVars, contextVars>>

\* runCycle returns
Return(k) == activations' = [activations EXCEPT ![k].pc = "returned"]

\* continue: the loop guard, then iteration++ and the builder call
Continue(k) ==
    IF LoopGuard(activations[k].iteration, config)
    THEN activations' = [activations EXCEPT
            ![k].iteration = @ + 1, ![k].pc = "builder"]
    ELSE Return(k)

\* ws.on('message'), case 'run_cycle': runCycle is called whatever the earlier
\* calls are doing; it resets the histories and runs up to its builder call
SessionRunCycle ==
    \E k \in 1..MaxCycles :
        /\ activations[k].pc = "none"
        /\ \A j \in 1..(k - 1) : activations[j].pc # "none"
        /\ patchHistory' = << >>
        /\ reviewHistory' = << >>
        /\ IF LoopGuard(0, config)
           THEN activations' = [activations EXCEPT
                    ![k] = [pc |-> "builder", iteration |-> 1, pushed |-> << >>]]
           ELSE activations' = [activations EXCEPT
                    ![k] = [pc |-> "returned", iteration |-> 0, pushed |-> << >>]]
        /\ UNCHANGED sessionUnchanged

\* the builder call of the k-th runCycle returns
SessionBuilderReturns ==
    \E k \in 1..MaxCycles, resp \in SessionBuilderResponses :
        /\ activations[k].pc = "builder"
        /\ IF ~resp.ok \/ detectOscillation(patchHistory, resp.patch)
           THEN /\ Return(k)
                /\ patchHistory' = patchHistory
           ELSE /\ patchHistory' = Append(patchHistory, resp.patch)
                /\ activations' = [activations EXCEPT
                      ![k].pushed = Append(@, resp.patch),
                      ![k].pc = IF PatchChecks[resp.patch].valid
                                THEN "apply" ELSE "returned"]
        /\ UNCHANGED reviewHistory
        /\ UNCHANGED sessionUnchanged

\* this.tools.applyPatch of the k-th runCycle returns
SessionApplyReturns ==
    \E k \in 1..MaxCycles, outcome \in ApplyOutcomes :
        /\ activations[k].pc = "apply"
        /\ activations' = [activations EXCEPT
              ![k].pc = IF outcome = "git_ok" THEN "run" ELSE "returned"]
        /\ UNCHANGED <<patchHistory, reviewHistory>>
        /\ UNCHANGED sessionUnchanged

\* the test command of the k-th runCycle returns
SessionTestsReturn ==
    \E k \in 1..MaxCycles, code \in ExitCodes :
        /\ activations[k].pc = "run"
        /\ IF code # 0
           THEN IF activations[k].iteration >= config.max_iterations
                THEN Return(k)
                ELSE Continue(k)
           ELSE IF shouldRunReviewer(config, activations[k].iteration, TRUE)
                THEN activations' = [activations EXCEPT ![k].pc = "reviewer"]
                ELSE Return(k)
        /\ UNCHANGED <<patchHistory, reviewHistory>>
        /\ UNCHANGED sessionUnchanged

\* the reviewer call of the k-th runCycle returns
SessionReviewerReturns ==
    \E k \in 1..MaxCycles, resp \in SessionReviewerResponses :
        /\ activations[k].pc = "reviewer"
        /\ IF ~resp.ok
           THEN /\ Return(k)
                /\ reviewHistory' = reviewHistory
           ELSE /\ reviewHistory' = Append(reviewHistory, resp.review)
                /\ IF resp.review.verdict = "approve"
                      \/ activations[k].iteration >= config.max_iterations
                   THEN Return(k)
                   ELSE Continue(k)
        /\ UNCHANGED patchHistory
        /\ UNCHANGED sessionUnchanged

InitSession ==
    /\ config = DefaultConfig
    /\ CycleIdle
    /\ ServerIdle
    /\ ToolsIdle
    /\ SessionIdle
    /\ ContextIdle

NextSession ==
    \/ SessionRunCycle
    \/ SessionBuilderReturns
    \/ SessionApplyReturns
    \/ SessionTestsReturn
    \/ SessionReviewerReturns

SpecSession == InitSession /\ [][NextSession]_vars

(***************************************************************************)
(* Orchestrator.shouldRunReviewer on its own: runCycle stands at the       *)
(* decision to review, with a configuration, an iteration counter and a    *)
(* test result drawn from the sets below.  (runCycle itself reaches the    *)
(* decision only after passing tests.)                                     *)
(***************************************************************************)
GateConfigs ==
    [max_iterations : 1..MaxGateIterations,
     review_mode : {"always", "selective", "final_only"},
     review_on_test_pass : BOOLEAN,
     enable_moderator : {FALSE},
     moderator_configured : {FALSE}]

ReviewGate ==
    \* if (this.shouldRunReviewer(iteration, testsPass)) ... else ...
    /\ pc = "review_gate"
    /\ pc' = IF shouldRunReviewer(config, iteration, lastTestOutput.exitCode = 0)
             THEN "reviewer"
             ELSE "review_skipped"
    /\ UNCHANGED <<config, iteration, lastPatch, lastTestOutput,
                   builderMessage, review, stuckIssue, arbiterMessage,
                   patchHistory, reviewHistory, terminals, fileRequestAt,
                   filesNeededSeen, diagnosticRounds, patchReady,
                   repeatedPatch, arbiterSinceReview, reviewerCalls,
                   moderatorCalls, openIssues, gitApply, arbiterEvent,
                   commandsRun, moderatorDecision>>
    /\ UNCHANGED <<serverVars, toolVars, sessionVars, contextVars>>

InitReviewGate ==
    /\ config \in GateConfigs
    /\ pc = "review_gate"
    /\ iteration \in 1..config.max_iterations
    /\ \E code \in ExitCodes : lastTestOutput = TestOutput(code)
    /\ lastPatch = NoPatch
    /\ builderMessage = NoBuilderMessage
    /\ review = NoReview
    /\ stuckIssue = NoIssue
    /\ arbiterMessage = NoBuilderMessage
    /\ patchHistory = << >>
    /\ reviewHistory = << >>
    /\ terminals = << >>
    /\ fileRequestAt = 0
    /\ filesNeededSeen = 0
    /\ diagnosticRounds = 0
    /\ patchReady = {}
    /\ repeatedPatch = FALSE
    /\ arbiterSinceReview = 0
    /\ reviewerCalls = << >>
    /\ moderatorCalls = 0
    /\ openIssues = << >>
    /\ gitApply = NoGitApply
    /\ arbiterEvent = NoArbiterEvent
    /\ commandsRun = << >>
    /\ moderatorDecision = "none"
    /\ ServerIdle
    /\ ToolsIdle
    /\ SessionIdle
    /\ ContextIdle

NextReviewGate == ReviewGate

SpecReviewGate == InitReviewGate /\ [][NextReviewGate]_vars

(***************************************************************************)
(* Orchestrator.summarizeContext, and what the loop head of runCycle puts  *)
(* in the builder's prompt.  The feedback is known by its length, the      *)
(* length of previousFeedback.join('\n\n').                                *)
(***************************************************************************)
MaxFeedbackLen == 8
MaxThreshold == 3

\* fullFeedback.slice(0, 2000)
SliceLimit == 2000

\* the lengths of the feedback: short ones, and those around SliceLimit
FeedbackLengths ==
    (0..MaxFeedbackLen) \cup { SliceLimit - 4 + d : d \in 0..MaxFeedbackLen }

\* config.context_summary_threshold, in tokens
Thresholds == (1..MaxThreshold) \cup { SliceLimit \div 4 }

\* Math.ceil(text.length / 4)
estimateTokens(len) == (len + 3) \div 4

\* provider is how this.builderProvider.complete ends: "completes" or "throws"
summarizeContext(len, threshold, provider) ==
    IF estimateTokens(len) < threshold THEN Feedback(len)
    ELSE IF provider = "completes" THEN Summary
    ELSE Feedback(IF len < SliceLimit THEN len ELSE SliceLimit)

\* runCycle, the loop head: buildSharedState puts every entry of openIssues
\* in the OPEN_ISSUES section, and the builder is called with it
ContextLoopHead ==
    /\ context.pc = "feedback"
    /\ context' = [context EXCEPT !.pc = "builder", !.result = Feedback(context.len)]
    /\ UNCHANGED <<cycleVars, serverVars, toolVars, sessionVars>>

\* summarizeContext(userRequest, iteration, previousFeedback)
ContextSummarize ==
    /\ context.pc = "feedback"
    /\ \E provider \in {"completes", "throws"} :
        context' = [context EXCEPT
            !.pc = "summarized",
            !.provider = provider,
            !.result = summarizeContext(context.len, context.threshold, provider)]
    /\ UNCHANGED <<cycleVars, serverVars, toolVars, sessionVars>>

InitContext ==
    /\ config = DefaultConfig
    /\ CycleIdle
    /\ ServerIdle
    /\ ToolsIdle
    /\ SessionIdle
    /\ \E len \in FeedbackLengths, threshold \in Thresholds :
        context = [len |-> len, threshold |-> threshold, pc |-> "feedback",
                   provider |-> "none", result |-> Feedback(0)]

NextContext ==
    \/ ContextLoopHead
    \/ ContextSummarize

SpecContext == InitContext /\ [][NextContext]_vars

(***************************************************************************)
(* Properties of the cycle, checked under Spec.                            *)
(***************************************************************************)
IsCycleComplete(ev) == ev.type = "cycle_complete"

\* the paths the diff parser extracts from the header lines of each patch the
\* builder may emit
BuilderPatchPaths == [p \in Patches |-> Range(FilePathsFrom(p, 1))]

\* the paths the diff parser extracts from the header lines of a patch
ExtractedPaths(patch) ==
    IF patch \in Patches THEN BuilderPatchPaths[patch]
    ELSE Range(FilePathsFrom(patch, 1))

\* for each patch the builder may emit, its extracted paths that the
\* allow-list rejects, in header order
DisallowedPathsOf ==
    [p \in Patches |->
        SelectSeq(FilePathsFrom(p, 1), LAMBDA path : ~isPathAllowed(AllowPaths, path))]

\* the extracted paths of the patch that the allow-list rejects
DisallowedPaths(patch) ==
    IF patch \in Patches THEN Range(DisallowedPathsOf[patch])
    ELSE { path \in Range(FilePathsFrom(patch, 1)) : ~isPathAllowed(AllowPaths, path) }

\* an issue_id other than the empty string carried by both reviews, each time
\* with severity critical or major
SharesMajorIssue(prev, last) ==
    \E i \in 1..Len(prev.issues), j \in 1..Len(last.issues) :
        /\ prev.issues[i].issue_id = last.issues[j].issue_id
        /\ prev.issues[i].issue_id \notin {NoIssueId, ""}
        /\ prev.issues[i].severity \in {"critical", "major"}
        /\ last.issues[j].severity \in {"critical", "major"}

\* the same, the empty string counting as an issue_id
SharesMajorIssueId(prev, last) ==
    \E i \in 1..Len(prev.issues), j \in 1..Len(last.issues) :
        /\ prev.issues[i].issue_id = last.issues[j].issue_id
        /\ prev.issues[i].issue_id # NoIssueId
        /\ prev.issues[i].severity \in {"critical", "major"}
        /\ last.issues[j].severity \in {"critical", "major"}

LastReview == reviewHistory[Len(reviewHistory)]
PrevReview == reviewHistory[Len(reviewHistory) - 1]

\* C1: a runCycle execution emits at most one terminal event (error or
\* cycle_complete).
C1_AtMostOneTerminal == Len(terminals) <= 1

\* C2: when runCycle has returned, it has emitted a terminal event.
C2_ReturnedWithTerminal == pc = "done" => Len(terminals) >= 1

\* C3: every path extracted from the headers of a patch handed to git apply
\* (main loop, arbiter mode, client apply_patch) is allowed by the allow-list.
C3_GitApplyOnlyAllowedPaths ==
    lastGitApply # NoPatch => DisallowedPaths(lastGitApply) = {}

\* C3 witness: the arbiter's test patch went through git apply after a patch of
\* the main loop did.
C3_Witness ==
    /\ pc = "arbiter_run"
    /\ lastGitApply = PatchD
    /\ PatchA \in Range(patchHistory)

\* C4: the iterations field of cycle_complete is at least 1 and at most
\* max_iterations + files_needed responses + uncertainty-diagnostic rounds.
C4_IterationsBounded ==
    \A k \in 1..Len(terminals) :
        IsCycleComplete(terminals[k]) =>
            /\ terminals[k].iterations >= 1
            /\ terminals[k].iterations
                   <= config.max_iterations + filesNeededSeen + diagnosticRounds

\* C4 witness: a cycle completes after a file request and a diagnostics round.
C4_Witness ==
    /\ \E k \in 1..Len(terminals) : IsCycleComplete(terminals[k])
    /\ filesNeededSeen >= 1
    /\ diagnosticRounds >= 1

\* C5: the builder invocation that follows a file request is announced with
\* the iteration number of the pass that made the request.
C5_FileRequestKeepsIteration ==
    (pc = "builder" /\ fileRequestAt # 0) => iteration = fileRequestAt

\* C6: once the builder has repeated a patch in the main loop, the cycle is
\* consulting the moderator or has ended, with cycle_complete{success: false}
\* unless the moderator was consulted; the repeated patch is not applied.
C6_RepeatedPatchNotApplied ==
    repeatedPatch =>
        \/ pc = "moderator_osc"
        \/ /\ pc = "done"
           /\ terminals # << >>
           /\ IsCycleComplete(terminals[Len(terminals)])
           /\ moderatorCalls = 0 => ~terminals[Len(terminals)].success

\* C6 witness: the moderator is consulted about a repeated patch.
C6_Witness == repeatedPatch /\ pc = "moderator_osc"

C8_FinalOnlyAtMostOnce ==
    config.review_mode = "final_only" =>
        /\ Len(reviewerCalls) <= 1
        /\ \A k \in 1..Len(reviewerCalls) : reviewerCalls[k] = config.max_iterations

\* C8 amended: under final_only every reviewer invocation happens at iteration
\* max_iterations, and the reviewer is invoked at most once plus once for each
\* uncertainty-diagnostic round of the cycle.
C8_FinalOnlyOncePerRound ==
    config.review_mode = "final_only" =>
        /\ Len(reviewerCalls) <= 1 + diagnosticRounds
        /\ \A k \in 1..Len(reviewerCalls) : reviewerCalls[k] = config.max_iterations

\* C8 witness: under final_only the reviewer is invoked a second time.
C8_Witness ==
    /\ config.review_mode = "final_only"
    /\ pc = "reviewer"
    /\ Len(reviewerCalls) = 2

\* C9: every review in the review history has a block_reason when its verdict
\* is block, and a non-empty diagnostics_needed when its block_reason is
\* uncertainty.
C9_AcceptedReviewsWellFormed ==
    \A k \in 1..Len(reviewHistory) :
        LET r == reviewHistory[k]
        IN  /\ r.verdict = "block" => r.block_reason # NoReason
            /\ r.block_reason = "uncertainty" =>
                   r.has_diagnostics /\ r.diagnostics_needed # << >>

(***************************************************************************)
(* Properties of the server, checked under SpecServer.                     *)
(***************************************************************************)
\* C10: the sessions of two clients are independent: the events a client's
\* messages cause reach that client's socket only, and the histories of the
\* Orchestrator made for a connection hold that client's requests only.
C10_SessionsIndependent ==
    \A c \in Clients :
        /\ server.lastEvent[c] # NoEvent => server.lastEvent[c].origin = c
        /\ server.cycleOf[c] \in {Null, c}


(***************************************************************************)
(* Events, errors and commands of the cycle, checked under Spec.           *)
(***************************************************************************)
LastTerminal == terminals[Len(terminals)]

\* a patch one of whose extracted paths the allow-list rejects
TouchesDisallowedPath(patch) == DisallowedPathsOf[patch] # << >>

\* the first path of the patch, in header order, that the allow-list rejects
FirstDisallowedPath(patch) == DisallowedPathsOf[patch][1]

\* C12: every arbiter_mode event of a cycle is followed by an arbiter_result
\* event before the cycle ends.
C12_ArbiterModeAnswered == pc = "done" => ~arbiterOpen

\* C13: after the error of a response that failed JSON parsing or schema
\* validation, the cycle emits no cycle_complete.
C13_ParseFailureNoCycleComplete ==
    \A i \in 1..Len(terminals), j \in 1..Len(terminals) :
        (i < j /\ terminals[i] = ErrorEvent(ParseFailed, << >>))
            => ~IsCycleComplete(terminals[j])

\* C14 (as the code has it): a patch_ready patch touching a disallowed path
\* ends the cycle at the builder step, announced once, never handed to git
\* apply and with no command run in its pass.  When the oscillation check,
\* which comes first, does not flag it, it joins the history and the only
\* terminal event of the pass is the error naming its first disallowed path;
\* when the oscillation check flags it, the cycle ends through the
\* oscillation branch (the moderator or cycle_complete) with no such error.
C14_DisallowedPatchEndsCycle ==
    \A p \in patchReady :
        TouchesDisallowedPath(p) =>
            /\ pc \in {"done", "moderator_osc"}
            /\ ~repeatedPatch
            /\ lastGitApply # p
            /\ lastCommand = "none"
            /\ IF p \in Range(patchHistory)
               THEN /\ pc = "done"
                    /\ LastTerminal = ErrorEvent(DisallowedPath, FirstDisallowedPath(p))
                    /\ \A k \in 1..Len(terminals) : ~IsCycleComplete(terminals[k])
               ELSE /\ detectOscillation(patchHistory, p)
                    /\ \A k \in 1..Len(terminals) :
                           terminals[k].error[1] # DisallowedPath
                    /\ pc = "done" => IsCycleComplete(LastTerminal)

\* C14 witness: the disallowed PatchE follows PatchD, which it resembles, and
\* the cycle ends with cycle_complete and no error.
C14_Witness ==
    /\ pc = "done"
    /\ PatchE \in patchReady
    /\ PatchE \notin Range(patchHistory)
    /\ Len(terminals) = 1
    /\ IsCycleComplete(LastTerminal)

\* C14 (as stated): a patch_ready patch touching a disallowed path ends the
\* cycle with the error naming the path and no cycle_complete.
C14_DisallowedPatchIsError ==
    \A p \in patchReady :
        (TouchesDisallowedPath(p) /\ pc = "done") =>
            /\ LastTerminal = ErrorEvent(DisallowedPath, FirstDisallowedPath(p))
            /\ \A k \in 1..Len(terminals) : ~IsCycleComplete(terminals[k])

\* C15: every command run in the workspace is the configured test_command.
C15_OnlyTestCommand == lastCommand \in {"none", "test_command"}

\* C16: a cycle invokes the reviewer, hence the builder before it, at most
\* max_iterations times.
C16_BuilderCallsBounded == Len(reviewerCalls) <= config.max_iterations

\* C20: a cycle in which the moderator was consulted (or was to be, with no
\* provider) ends with cycle_complete, whose success is TRUE exactly when the
\* decision is accept_builder.
C20_ModeratorDecides ==
    (pc = "done" /\ moderatorDecision # "none") =>
        /\ IsCycleComplete(LastTerminal)
        /\ LastTerminal.success = (moderatorDecision = "accept_builder")
        /\ \A k \in 1..(Len(terminals) - 1) : ~IsCycleComplete(terminals[k])

\* C20 witness: the moderator, consulted at max-iteration exhaustion, accepted
\* the builder's patch.
C20_Witness ==
    /\ pc = "done"
    /\ moderatorDecision = "accept_builder"
    /\ moderatorCalls = 1
    /\ Len(reviewHistory) = config.max_iterations
    /\ LastTerminal.success

(***************************************************************************)
(* Properties of WorkspaceTools, checked under SpecTools.                  *)
(***************************************************************************)
\* the line is `--- ` or `+++ `, then a/ or b/, then a path that is not empty
NamesPath(line) ==
    /\ Len(line) > 6
    /\ SubSeq(line, 1, 4) \in { <<"-", "-", "-", " ">>, <<"+", "+", "+", " ">> }
    /\ SubSeq(line, 5, 6) \in { <<"a", "/">>, <<"b", "/">> }
    /\ SubSeq(line, 7, Len(line)) # DevNull

NamedPath(line) == SubSeq(line, 7, Len(line))

\* the lines of the patch naming a path the allow-list rejects
DisallowedLines(allowList, patch) ==
    { i \in 1..Len(patch) :
        NamesPath(patch[i]) /\ ~isPathAllowed(allowList, NamedPath(patch[i])) }

\* C17: validatePatch answers valid exactly when no header line names a
\* disallowed path, and else names the path of the first such line.
C17_ValidatePatchFirstDisallowed ==
    tools.call.op = "validatePatch" =>
        LET bad == DisallowedLines(tools.allowPaths, tools.call.arg)
            answer == tools.result.value
        IN  /\ ~tools.result.threw
            /\ answer.valid <=> bad = {}
            /\ bad # {} =>
                 \E i \in bad :
                    /\ \A k \in bad : i <= k
                    /\ answer.error = NamedPath(tools.call.arg[i])

\* C17 witness: a patch of two files, the first allowed and the second not,
\* is rejected for the second.
C17_Witness ==
    /\ tools.call.op = "validatePatch"
    /\ tools.allowPaths = << <<"s", "/", "*">> >>
    /\ tools.call.arg = << MinusHeader(<<"s", "/", "s">>), PlusHeader(<<"s">>),
                           PlusHeader(<<".">>) >>
    /\ tools.result.value = [valid |-> FALSE, error |-> <<"s">>]

RECURSIVE GlobMatches(_, _, _, _)
\* the stated glob semantics: does pattern, from its i-th character on, match
\* path from its j-th character on?  `**/` stands for any number of whole
\* segments, `**` elsewhere for any text, `*` for a run of characters other
\* than `/`, `?` for one such character, anything else for itself.
GlobMatches(pattern, i, path, j) ==
    IF i > Len(pattern) THEN j > Len(path)
    ELSE IF pattern[i] = "*" /\ i < Len(pattern) /\ pattern[i + 1] = "*"
    THEN LET e == CHOOSE k \in (i + 1)..Len(pattern) :
                      /\ \A m \in i..k : pattern[m] = "*"
                      /\ k = Len(pattern) \/ pattern[k + 1] # "*"
         IN  IF e < Len(pattern) /\ pattern[e + 1] = "/"
             THEN \/ GlobMatches(pattern, e + 2, path, j)
                  \/ \E k \in j..Len(path) :
                        /\ path[k] = "/"
                        /\ GlobMatches(pattern, e + 2, path, k + 1)
             ELSE \E k \in j..(Len(path) + 1) : GlobMatches(pattern, e + 1, path, k)
    ELSE IF pattern[i] = "*"
    THEN \E k \in j..(Len(path) + 1) :
            /\ \A m \in j..(k - 1) : path[m] # "/"
            /\ GlobMatches(pattern, i + 1, path, k)
    ELSE /\ j <= Len(path)
         /\ IF pattern[i] = "?" THEN path[j] # "/" ELSE path[j] = pattern[i]
         /\ GlobMatches(pattern, i + 1, path, j + 1)

\* a path is allowed iff some pattern matches it, or it equals a pattern, or it
\* lies under a pattern taken as a directory prefix
StatedAllowed(allowList, path) ==
    \E a \in 1..Len(allowList) :
        LET pattern == allowList[a]
            dir == IF pattern # << >> /\ pattern[Len(pattern)] = "/"
                   THEN pattern ELSE Append(pattern, "/")
        IN  \/ GlobMatches(pattern, 1, path, 1)
            \/ path = pattern
            \/ Len(path) >= Len(dir) /\ SubSeq(path, 1, Len(dir)) = dir

\* C18: isPathAllowed answers as the stated glob semantics do.
C18_GlobSemantics ==
    tools.call.op = "isPathAllowed" =>
        tools.result.value = StatedAllowed(tools.allowPaths, tools.call.arg)

\* C19: readFile throws 'not in allowlist' for a disallowed path and 'File not
\* found' for an allowed path that does not exist; readFiles returns one entry
\* per requested path, the content of a readable file and else a string that
\* begins with ERROR.
C19_ReadFileErrors ==
    LET Allowed(p) == isPathAllowed(tools.allowPaths, p)
        answer == tools.result.value
    IN  /\ tools.call.op = "readFile" =>
              LET p == tools.call.arg
              IN  /\ ~Allowed(p) =>
                        /\ tools.result.threw
                        /\ answer = <<"Path ", p, " is not in allowlist">>
                  /\ (Allowed(p) /\ tools.fileKind[p] = "none") =>
                        /\ tools.result.threw
                        /\ answer = <<"File not found: ", p>>
                  /\ (Allowed(p) /\ tools.fileKind[p] = "file") =>
                        /\ ~tools.result.threw
                        /\ answer = ContentOf(p)
        /\ tools.call.op = "readFiles" =>
              /\ ~tools.result.threw
              /\ DOMAIN answer = Range(tools.call.arg)
              /\ \A p \in Range(tools.call.arg) :
                    IF Allowed(p) /\ tools.fileKind[p] = "file"
                    THEN answer[p] = ContentOf(p)
                    ELSE /\ answer[p][1] = "ERROR: "
                         /\ ~Allowed(p) => answer[p][Len(answer[p])] = " is not in allowlist"

\* C19 witness: readFiles is asked for a disallowed path and then a readable
\* file, and returns the error for the one and the content of the other.
C19_Witness ==
    /\ tools.call.op = "readFiles"
    /\ tools.call.arg = << <<".">>, <<"s", "/", "s">> >>
    /\ tools.result.value[<<".">>][1] = "ERROR: "
    /\ tools.result.value[<<"s", "/", "s">>] = ContentOf(<<"s", "/", "s">>)

(***************************************************************************)
(* Properties of one connection, checked under SpecSession.                *)
(***************************************************************************)
IsPrefix(s, t) == Len(s) <= Len(t) /\ SubSeq(t, 1, Len(s)) = s

\* C11: at most one runCycle call of a connection is suspended at a time, and
\* the patches a suspended call has pushed are still in this.patchHistory.
C11_OneCycleAtATime ==
    /\ Cardinality({ k \in 1..MaxCycles : activations[k].pc \in Suspended }) <= 1
    /\ \A k \in 1..MaxCycles :
          activations[k].pc \in Suspended => IsPrefix(activations[k].pushed, patchHistory)

(***************************************************************************)
(* The moderator, diagnostics, the RUN step and the review gate, checked   *)
(* under Spec.                                                             *)
(***************************************************************************)
\* the review that was answered to the last reviewer invocation used up the
\* iterations: it was made at the last iteration and asks for changes
\* (request_changes, or block with block_reason definite_bug)
LastReviewExhausts ==
    /\ reviewerCalls # << >>
    /\ reviewerCalls[Len(reviewerCalls)] >= config.max_iterations
    /\ Len(reviewHistory) = Len(reviewerCalls)
    /\ \/ LastReview.verdict = "request_changes"
       \/ LastReview.verdict = "block" /\ LastReview.block_reason = "definite_bug"

\* C21: with the moderator enabled and configured, a cycle that ends because
\* the last iteration's review asks for changes and carries a critical or
\* major issue has consulted the moderator.
C21_ModeratorAtExhaustion ==
    (/\ pc = "done"
     /\ moderatorProvider(config)
     /\ LastReviewExhausts
     /\ hasCriticalIssues(LastReview)
     /\ ~arbiterOpen)
        => moderatorCalls >= 1

\* the reviewer invocations that repeat the iteration number of the one before:
\* those of the pass that follows a diagnostics round
ReviewsAfterDiagnostics ==
    { k \in 2..Len(reviewerCalls) : reviewerCalls[k] = reviewerCalls[k - 1] }

\* C22: when the cycle has ended without an error event, every diagnostics
\* round was followed by a reviewer invocation in the next pass.
C22_ReviewerAgainAfterDiagnostics ==
    (pc = "done" /\ \A k \in 1..Len(terminals) : terminals[k].type # "error")
        => Cardinality(ReviewsAfterDiagnostics) = diagnosticRounds

(* WorkspaceTools.applyPatch and its temporary file, checked under SpecTools. *)
\* C23: once applyPatch has returned, whichever way it left (validation
\* failure, writeFileSync throwing, git apply exiting non-zero, spawn error,
\* success), .dualagent-temp.patch does not exist in the workspace root.
C23_TempFileRemoved ==
    tools.call.op = "applyPatch" => ~tools.tempFile

\* applyPatch wrote the file, git apply exited non-zero, and the call returned
C23_Witness ==
    /\ tools.call.op = "applyPatch"
    /\ tools.result.value = ApplyPatchFailed("git apply output")
    /\ ~tools.tempFile

C25_TestsFailed ==
    [][(pc = "run" /\ commandsRun'[Len(commandsRun')].exitCode # 0) =>
        /\ reviewerCalls' = reviewerCalls
        /\ reviewHistory' = reviewHistory
        /\ IF iteration < config.max_iterations
           THEN /\ pc' = "loop"
                /\ iteration' = iteration
                /\ LoopGuard(iteration', config')
                /\ terminals' = terminals
                /\ Len(openIssues') = 3
                /\ openIssues'[1] = <<"[CRITICAL] Tests failing - Exit code ",
                                      commandsRun'[Len(commandsRun')].exitCode>>
                /\ openIssues'[2][1] = "Stdout: "
                /\ openIssues'[3][1] = "Stderr: "
           ELSE /\ pc' = "done"
                /\ terminals' = Append(terminals,
                       CycleComplete(FALSE, iteration, MaxIterationsFailingTests))
    ]_vars

\* the tests fail below max_iterations in a pass that began with an entry in
\* openIssues (the diagnostics of the pass before), and the three entries
\* replace it
C25_Witness ==
    /\ pc = "loop"
    /\ lastCommand \in {"builder_run", "test_command"}
    /\ commandsRun[Len(commandsRun)].exitCode # 0
    /\ iteration < config.max_iterations
    /\ diagnosticRounds > 0
    /\ Len(openIssues) = 3
    /\ \A k \in 1..3 : openIssues[k][1] # "DIAGNOSTICS RUN:"

(* The decision to review, checked under SpecReviewGate. *)
\* the rule as stated for selective mode
StatedSelectiveRule(i, maxIterations, testsPass, reviewOnTestPass) ==
    IF i = 1 /\ testsPass /\ ~reviewOnTestPass
    THEN FALSE
    ELSE ~testsPass \/ i >= maxIterations \/ i % 2 = 0

ReviewSkippedByMode ==
    \/ config.review_mode = "final_only" /\ iteration < config.max_iterations
    \/ /\ config.review_mode = "selective"
       /\ iteration < config.max_iterations
       /\ iteration % 2 = 1
       /\ iteration = 1 => ~config.review_on_test_pass

DiagnosticsRoundEnds ==
    /\ pc \in {"reviewer", "diagnostics"}
    /\ diagnosticRounds' = diagnosticRounds + 1

\* C28: a diagnostics round does not consume an attempt: after the
\* block/uncertainty review of iteration i the diagnostics composite is
\* appended to openIssues and the counter decremented, the loop goes on, and
\* the loop head, which adds one, announces the next pass as iteration i.
C28_DiagnosticsKeepAttempt ==
    [][/\ DiagnosticsRoundEnds =>
            /\ reviewerCalls[Len(reviewerCalls)] = iteration
            /\ pc' = "loop"
            /\ iteration' = iteration - 1
            /\ iteration' < config.max_iterations
            /\ Len(openIssues') = Len(openIssues) + 1
            /\ SubSeq(openIssues', 1, Len(openIssues)) = openIssues
            /\ openIssues'[Len(openIssues')][1] = "DIAGNOSTICS RUN:"
            /\ terminals' = terminals
       /\ (pc = "loop" /\ pc' = "builder") => iteration' = iteration + 1
    ]_vars

\* the builder is called for iteration max_iterations a second time, after a
\* diagnostics round: with as many patches in the history as max_iterations
C28_Witness ==
    /\ pc = "builder"
    /\ diagnosticRounds > 0
    /\ iteration = config.max_iterations
    /\ reviewerCalls[Len(reviewerCalls)] = iteration
    /\ Len(patchHistory) >= config.max_iterations
    /\ openIssues[Len(openIssues)][1] = "DIAGNOSTICS RUN:"

\* C29: in arbiter mode, when the builder's test patch passes the guard and
\* applies and a run command is given, the arbiter_result emitted has outcome
\* bug_confirmed iff the test command exits non-zero and bug_refuted iff it
\* exits 0, with test_passed equal to (exit code = 0).
C29_ArbiterOutcome ==
    [][pc = "arbiter_run" =>
        LET test == commandsRun'[Len(commandsRun')]
        IN  /\ gitApply = GitApply(arbiterMessage.patch, TRUE, "arbiter")
            /\ PatchChecks[arbiterMessage.patch].valid
            /\ arbiterMessage.run > 0
            /\ test.from = "arbiter_run" /\ test.index = 1
            /\ Len(commandsRun') = Len(commandsRun) + 1
            /\ arbiterEvent'.type = "arbiter_result"
            /\ (arbiterEvent'.outcome = "bug_confirmed") <=> (test.exitCode # 0)
            /\ (arbiterEvent'.outcome = "bug_refuted") <=> (test.exitCode = 0)
            /\ arbiterEvent'.test_passed <=> (test.exitCode = 0)
    ]_vars

\* the arbiter test has failed: bug_confirmed, and the builder is to fix it
C29_Witness ==
    /\ arbiterEvent = [type |-> "arbiter_result", outcome |-> "bug_confirmed",
                       test_passed |-> FALSE]
    /\ lastCommand = "arbiter_run"
    /\ commandsRun[Len(commandsRun)].exitCode = 1
    /\ pc = "loop"
    /\ openIssues = ArbiterConfirmedIssues(Issue("critical", "x"))

\* the cycle has ended inside arbiter mode: arbiter_mode was emitted and the
\* arbiter returned without an arbiter_result
ArbiterFailed == pc = "done" /\ arbiterOpen

\* C30: when the builder's arbiter response has no patch, a patch that fails
\* the guard or git apply, or no run command, the cycle ends with
\* cycle_complete{success: false} with no further builder or reviewer call,
\* and no arbiter patch is left applied to the workspace.
C30_ArbiterFailureLeavesNoPatch ==
    ArbiterFailed =>
        /\ IsCycleComplete(LastTerminal)
        /\ ~LastTerminal.success
        /\ LastTerminal.message = ArbiterModeFailed
        /\ arbiterSinceReview = 1
        /\ Len(reviewHistory) >= Len(reviewerCalls)
        /\ ~(gitApply.by = "arbiter" /\ gitApply.ok)

\* C31: after arbiter outcome bug_confirmed, the open issues given to the
\* next builder turn contain the "Arbiter-confirmed bug" marker for the stuck
\* issue; after bug_refuted, they are the latest review's issues with every
\* issue whose issue_id equals the refuted issue's removed, so that no line of
\* the refuted issue is presented to the builder in that turn.
C31_ArbiterOpenIssues ==
    [][/\ (pc = "arbiter_run" /\ pc' = "loop") =>
            /\ arbiterEvent'.outcome = "bug_confirmed" =>
                  \E k \in 1..Len(openIssues') :
                      openIssues'[k] = <<"[CRITICAL] Arbiter-confirmed bug: ",
                                         <<"description of ", stuckIssue.issue_id>>>>
            /\ arbiterEvent'.outcome = "bug_refuted" =>
                  /\ openIssues' =
                        IssueLines(SelectSeq(review.issues,
                            LAMBDA issue : issue.issue_id # stuckIssue.issue_id))
                  /\ \A k \in 1..Len(openIssues') :
                        openIssues'[k][4] # <<"description of ", stuckIssue.issue_id>>
       /\ (pc = "loop" /\ pc' = "builder") => openIssues' = openIssues
    ]_vars

\* the arbiter refuted issue x of a review that also raised issue y: the
\* builder's next turn is given issue y alone
C31_Witness ==
    /\ pc = "builder"
    /\ arbiterSinceReview > 0
    /\ openIssues = IssueLines(<< Issue("minor", "y") >>)

\* the step that receives a block / definite_bug review
DefiniteBugReviewed ==
    /\ pc = "reviewer"
    /\ Len(reviewHistory') = Len(reviewHistory) + 1
    /\ reviewHistory'[Len(reviewHistory')].verdict = "block"
    /\ reviewHistory'[Len(reviewHistory')].block_reason = "definite_bug"

ExhaustionEnd ==
    /\ pc' = "done"
    /\ iteration >= config.max_iterations
    /\ \/ pc = "run" /\ commandsRun'[Len(commandsRun')].exitCode # 0
       \/ /\ pc = "reviewer"
          /\ Len(reviewHistory') = Len(reviewHistory) + 1
          /\ \/ reviewHistory'[Len(reviewHistory')].verdict = "request_changes"
             \/ reviewHistory'[Len(reviewHistory')].block_reason = "definite_bug"
       \/ pc = "arbiter_run"
       \/ pc = "moderator_max" /\ moderatorDecision' # "accept_builder"
       \/ pc = "loop"

\* C33: whenever a cycle ends because max_iterations is exhausted, the
\* terminal event is cycle_complete{success: false} and its message ends with
\* the stopping message of the reviewer's last review.
C33_ExhaustionMessage ==
    [][ExhaustionEnd =>
        /\ Len(terminals') > Len(terminals)
        /\ IsCycleComplete(LastTerminal')
        /\ ~LastTerminal'.success
        /\ reviewHistory' # << >>
        /\ Len(LastTerminal'.message) = 2
        /\ LastTerminal'.message[2] = reviewHistory'[Len(reviewHistory')].stopping
    ]_vars

\* the check as stated: the new patch equals a previous patch of the cycle, or
\* its similarity against the most recent previous patch is at least 0.95
StatedOscillation(history, currentPatch) ==
    \/ \E i \in 1..Len(history) : history[i] = currentPatch
    \/ LET similarity == patchSimilarity(history[Len(history)], currentPatch)
       IN  similarity[1] * 100 >= similarity[2] * 95

\* C34: for every patch history of length >= 1, detectOscillation reports the
\* builder's new patch as stuck iff it equals any previous patch of the cycle
\* or its Jaccard similarity over line sets against the most recent previous
\* patch is >= 0.95; identical line sets give similarity 1.0 and disjoint line
\* sets 0.0.
C34_OscillationCheck ==
    (pc = "builder" /\ Len(patchHistory) >= 1) =>
        \A p \in Patches :
            /\ detectOscillation(patchHistory, p) <=> StatedOscillation(patchHistory, p)
            /\ LET last == patchHistory[Len(patchHistory)]
                   similarity == patchSimilarity(last, p)
               IN  /\ Range(last) = Range(p) => similarity[1] = similarity[2]
                   /\ Range(last) \cap Range(p) = {} => similarity[1] = 0

(* Unrecognized diffs and paths with `..`, checked under SpecTools. *)
\* no line of the patch is a header the parser recognizes
\* (`--- a/<p>`, `+++ b/<p>`)
Unrecognized(patch) ==
    /\ patch # << >>
    /\ \A i \in 1..Len(patch) : ~NamesPath(patch[i])

\* C35: a patch whose diff format is unrecognized (no header line the parser
\* recognizes, e.g. headers with another prefix) is rejected by validatePatch
\* and is never handed to git apply.
C35_UnrecognizedRejected ==
    /\ (tools.call.op = "validatePatch" /\ Unrecognized(tools.call.arg))
          => ~tools.result.value.valid
    /\ tools.call.op = "await git apply" => ~Unrecognized(tools.call.arg)

\* some segment of the path is `..`
HasDotDotSegment(path) ==
    \E i \in 1..(Len(path) - 1) :
        /\ path[i] = "." /\ path[i + 1] = "."
        /\ (i = 1 \/ path[i - 1] = "/")
        /\ (i + 1 = Len(path) \/ path[i + 2] = "/")

\* C38: no path with a `..` segment is accepted by the allow-list check, so
\* that every accepted path resolves inside an allow-listed location.
C38_NoPathTraversal ==
    (tools.call.op = "isPathAllowed" /\ tools.result.value = TRUE)
        => ~HasDotDotSegment(tools.call.arg)

(* The histories of consecutive runCycle calls, checked under SpecSession. *)
\* C36: the histories are empty at the start of every runCycle, and the
\* patch history that the oscillation check of a cycle reads holds the patches
\* of that cycle only, never a patch pushed by a call that began earlier on
\* the same orchestrator.
C36_HistoriesPerCycle ==
    \A k \in 1..MaxCycles :
        (/\ activations[k].pc = "builder"
         /\ \A j \in (k + 1)..MaxCycles : activations[j].pc = "none")
            => patchHistory = activations[k].pushed

(* Success and the counters of runCycle, checked under Spec. *)
\* C39: whenever a cycle emits cycle_complete{success: true}, the last patch
\* emitted by the builder in that cycle has passed the guard and has been
\* applied to the workspace (it is one of the patches the cycle went on to
\* validate and apply, and the last git apply succeeded), and the last RUN
\* step exited with code 0.
C39_SuccessMeansAppliedAndTested ==
    [][(/\ pc' = "done"
        /\ Len(terminals') > Len(terminals)
        /\ IsCycleComplete(LastTerminal')
        /\ LastTerminal'.success) =>
            /\ lastPatch # NoPatch
            /\ PatchChecks[lastPatch].valid
            /\ \E i \in 1..Len(patchHistory) : patchHistory[i] = lastPatch
            /\ gitApply.ok
            /\ IF pc = "run"
               THEN commandsRun'[Len(commandsRun')].exitCode = 0
               ELSE lastTestOutput.defined /\ lastTestOutput.exitCode = 0
    ]_vars

\* C40: with max_iterations >= 1, the iteration counter stays in
\* 0..max_iterations, the iteration announced to the builder ("Iteration
\* i/max") and the iterations of every cycle_complete are in
\* 1..max_iterations, and the patch history never holds the same patch twice.
C40_CounterAndHistory ==
    config.max_iterations >= 1 =>
        /\ iteration \in 0..config.max_iterations
        /\ pc = "builder" => iteration \in 1..config.max_iterations
        /\ \A k \in 1..Len(terminals) :
              IsCycleComplete(terminals[k]) =>
                  terminals[k].iterations \in 1..config.max_iterations
        /\ \A i, j \in 1..Len(patchHistory) :
              patchHistory[i] = patchHistory[j] => i = j

\* a cycle of two patches and a diagnostics round ends at the
\* last iteration
C40_Witness ==
    /\ pc = "done"
    /\ terminals # << >>
    /\ IsCycleComplete(LastTerminal)
    /\ LastTerminal.iterations = config.max_iterations
    /\ Len(patchHistory) = 2
    /\ diagnosticRounds >= 1

(* The feedback of the next builder turn, checked under SpecContext. *)
\* C37: when the feedback for the next builder turn exceeds
\* context_summary_threshold tokens (ceil(len / 4)), the builder is prompted
\* with the provider's summary in place of the feedback, or with the feedback
\* cut to 2000 characters if the summary call fails; feedback at or below the
\* threshold is passed unchanged.
C37_FeedbackSummarized ==
    LET tokens == (context.len + 3) \div 4
        cut == IF context.len < 2000 THEN context.len ELSE 2000
    IN  /\ context.pc = "builder" =>
              IF tokens > context.threshold
              THEN context.result \in {Summary, Feedback(cut)}
              ELSE context.result = Feedback(context.len)
        /\ context.pc = "summarized" =>
              IF tokens > context.threshold
              THEN context.result =
                      IF context.provider = "completes" THEN Summary ELSE Feedback(cut)
              ELSE context.result = Feedback(context.len)
====
